---- MODULE Spec2Model ----
(***************************************************************************)
(* A model of these parts of the Kea sources:                              *)
(*   - the perfmon hook's DurationKey, DurationDataInterval and            *)
(*     MonitoredDuration (hooks/dhcp/perfmon/monitored_duration.cc),       *)
(*   - the MonitoredDurationStore (monitored_duration_store.cc),           *)
(*   - the statistics manager (lib/stats/stats_mgr.cc, observation.h),     *)
(*   - the lease store, the parking lot of the transaction engine and the  *)
(*     allocation engine of the DHCPv4 server, as their contracts state    *)
(*     them (bin/dhcp4/dhcp4_messages.h, lib/dhcpsrv/dhcpsrv_messages.h),  *)
(*   - the registry of host data source factories and a list of sources    *)
(*     (lib/dhcpsrv/host_data_source_factory.cc),                          *)
(*   - the TTL of a resource record and its text (lib/dns/rrttl.cc),       *)
(*   - the message dictionary of tools/system_messages.cc.                 *)
(* Each part has its own specification over the variables it uses; the     *)
(* variables of the other parts stay at their initial value.               *)
(***************************************************************************)
EXTENDS Integers, Sequences, FiniteSets, TLC

VARIABLES
    ka, kb, cmp,                      \* DurationKey comparison: operands, result
    dint, added, avg,                 \* a DurationDataInterval, the samples added, last average
    now,                              \* PktEvent::now(), the clock
    intervals,                        \* heap of DurationDataInterval objects (shared_ptr targets)
    mond, calls,                      \* a MonitoredDuration, its addSample calls since construction/clear
    durations_, index_,               \* the store's container in the order of its index, the index's tree
    held, collection,                 \* the caller's objects, what getAll just returned
    lastOp,                           \* the last store/object operation and how it ended
    mutex_, pc, frame, hist,          \* store mutex, per-thread position, call frame, finished calls
    stats, typed, lastStat,           \* StatContext::stats_, first recorded type per name, last stats call
    fault,                            \* what unsynchronized access to stats_ did to the process
    lease_table, writer, ltime,       \* the lease store's table, its writer lock, the clock of its timestamps
    lpc, lframe, lsnap, lhist,        \* per worker: position, call frame, last lease read, finished calls
    tx, parking_lot,                  \* the transactions by xid, the xids in the parking lot
    parking_lot_full, running,        \* the parking-lot-full counter, the server has not shut down
    response, declined_at,            \* the engine's last response, each address's last DECLINE (time, client)
    map_, sources, lastHost,          \* HostDataSourceFactory::map_, a HostDataSourceList, the last call on them
    rrttl,                            \* the last RRTTL construction: its text and how it ended
    dictionary, lastMsg               \* the message dictionary of system_messages, the last addToDictionary

keyvars   == <<ka, kb, cmp>>
intvars   == <<dint, added, avg>>
durvars   == <<mond, calls>>
heapvars  == <<now, intervals>>
storevars == <<durations_, index_, held, collection, lastOp>>
mtvars    == <<mutex_, pc, frame, hist>>
statvars  == <<stats, typed, lastStat>>
racevars  == <<fault>>
leasevars == <<lease_table, writer, ltime, lpc, lframe, lsnap, lhist>>
parkvars  == <<tx, parking_lot, parking_lot_full, running>>
allocvars == <<response, declined_at>>
hostvars  == <<map_, sources, lastHost>>
ttlvars   == <<rrttl>>
dictvars  == <<dictionary, lastMsg>>
libvars   == <<hostvars, ttlvars, dictvars>>
srvvars   == <<leasevars, parkvars, allocvars, libvars>>
vars      ==
    <<keyvars, intvars, durvars, heapvars, storevars, mtvars, statvars, racevars, srvvars>>

----------------------------------------------------------------------------
(* Values shared by the parts.                                             *)

\* An absent value is the empty sequence, a present one a one-element sequence.
None == <<>>
Some(x) == <<x>>

\* The value of a part's variables under the specifications of the other parts.
IdleKey == ka = None /\ kb = None /\ cmp = None
IdleInterval == dint = None /\ added = None /\ avg = None
IdleDuration == mond = None /\ calls = None
IdleHeap == now = 0 /\ intervals = << >>
IdleStore ==
    durations_ = None /\ index_ = None /\ held = None /\ collection = None /\ lastOp = None
IdleMT == mutex_ = 0 /\ pc = None /\ frame = None /\ hist = None
IdleStats == stats = None /\ typed = None /\ lastStat = None
IdleRace == fault = ""
IdleLease ==
    /\ lease_table = None /\ writer = 0 /\ ltime = 0
    /\ lpc = None /\ lframe = None /\ lsnap = None /\ lhist = None
IdleParking == tx = None /\ parking_lot = None /\ parking_lot_full = 0 /\ running = FALSE
IdleAlloc == response = None /\ declined_at = None
IdleHost == map_ = None /\ sources = None /\ lastHost = None
IdleTtl == rrttl = None
IdleDict == dictionary = None /\ lastMsg = None
IdleLib == IdleHost /\ IdleTtl /\ IdleDict
IdleSrv == IdleLease /\ IdleParking /\ IdleAlloc /\ IdleLib

\* boost::posix_time special values: int_adapter keeps pos_infin as the largest and
\* neg_infin as the smallest tick count; here the largest/smallest TLC integer.
PosInfin == 2147483647
NegInfin == -2147483647
ZERO_DURATION == 0

\* Address families and message types used by DurationKey::validateMessagePair.
AF_INET == 2
AF_INET6 == 10
DHCP_NOTYPE == 0
DHCPDISCOVER == 1
DHCPOFFER == 2
DHCPREQUEST == 3
DHCPACK == 5
DHCPNAK == 6
DHCPINFORM == 8
DHCPV6_NOTYPE == 0
DHCPV6_SOLICIT == 1
DHCPV6_ADVERTISE == 2
DHCPV6_REQUEST == 3
DHCPV6_CONFIRM == 4
DHCPV6_RENEW == 5
DHCPV6_REBIND == 6
DHCPV6_REPLY == 7

----------------------------------------------------------------------------
(* DurationKey                                                             *)

\* std::string operator<: lexicographic comparison of the characters (as codes).
StrLess(a, b) ==
    \E i \in 1..(Len(b)) :
        /\ \A j \in 1..(i - 1) : j <= Len(a) /\ a[j] = b[j]
        /\ (i > Len(a) \/ (i <= Len(a) /\ a[i] < b[i]))

\* validateMessagePair that lets DHCPNAK through as the response to DHCPINFORM.
validateMessagePairInformNak(family, query_type, response_type) ==
    IF family = AF_INET
    THEN CASE query_type = DHCP_NOTYPE ->
                  response_type \in {DHCP_NOTYPE, DHCPOFFER, DHCPACK, DHCPNAK}
           [] query_type = DHCPDISCOVER ->
                  response_type \in {DHCP_NOTYPE, DHCPOFFER, DHCPNAK}
           [] query_type \in {DHCPREQUEST, DHCPINFORM} ->
                  response_type \in {DHCP_NOTYPE, DHCPACK, DHCPNAK}
           [] OTHER -> FALSE
    ELSE CASE query_type \in {DHCPV6_NOTYPE, DHCPV6_SOLICIT} ->
                  response_type \in {DHCPV6_NOTYPE, DHCPV6_ADVERTISE, DHCPV6_REPLY}
           [] query_type \in {DHCPV6_REQUEST, DHCPV6_RENEW, DHCPV6_REBIND, DHCPV6_CONFIRM} ->
                  response_type \in {DHCPV6_NOTYPE, DHCPV6_REPLY}
           [] OTHER -> FALSE

\* DurationKey::validateMessagePair: TRUE when it returns, FALSE when it throws BadValue.
validateMessagePair(family, query_type, response_type) ==
    IF family = AF_INET
    THEN CASE query_type = DHCP_NOTYPE ->
                  response_type \in {DHCP_NOTYPE, DHCPOFFER, DHCPACK, DHCPNAK}
           [] query_type = DHCPDISCOVER ->
                  response_type \in {DHCP_NOTYPE, DHCPOFFER, DHCPNAK}
           [] query_type = DHCPREQUEST ->
                  response_type \in {DHCP_NOTYPE, DHCPACK, DHCPNAK}
           [] query_type = DHCPINFORM ->
                  response_type \in {DHCP_NOTYPE, DHCPACK}
           [] OTHER -> FALSE
    ELSE CASE query_type \in {DHCPV6_NOTYPE, DHCPV6_SOLICIT} ->
                  response_type \in {DHCPV6_NOTYPE, DHCPV6_ADVERTISE, DHCPV6_REPLY}
           [] query_type \in {DHCPV6_REQUEST, DHCPV6_RENEW, DHCPV6_REBIND, DHCPV6_CONFIRM} ->
                  response_type \in {DHCPV6_NOTYPE, DHCPV6_REPLY}
           [] OTHER -> FALSE

\* DurationKey::DurationKey: TRUE when construction succeeds.
DurationKeyValid(family, query_type, response_type) ==
    /\ family \in {AF_INET, AF_INET6}
    /\ validateMessagePair(family, query_type, response_type)

DurationKey(family, query_type, response_type, start_label, end_label, subnet_id) ==
    [family_ |-> family, query_type_ |-> query_type, response_type_ |-> response_type,
     start_event_label_ |-> start_label, end_event_label_ |-> end_label,
     subnet_id_ |-> subnet_id]

\* DurationKey::operator==
KeyEquals(a, b) ==
    /\ a.family_ = b.family_
    /\ a.query_type_ = b.query_type_
    /\ a.response_type_ = b.response_type_
    /\ a.start_event_label_ = b.start_event_label_
    /\ a.end_event_label_ = b.end_event_label_
    /\ a.subnet_id_ = b.subnet_id_

\* DurationKey::operator<
KeyLess(a, b) ==
    \/ a.family_ < b.family_
    \/ a.query_type_ < b.query_type_
    \/ a.response_type_ < b.response_type_
    \/ StrLess(a.start_event_label_, b.start_event_label_)
    \/ StrLess(a.end_event_label_, b.end_event_label_)
    \/ a.subnet_id_ < b.subnet_id_

\* The inputs of the comparison: every key the constructor accepts over these fields.
KeyFamilies == {AF_INET, AF_INET6}
KeyQueryTypes == {DHCP_NOTYPE, DHCPDISCOVER, DHCPREQUEST}
KeyResponseTypes == {DHCP_NOTYPE, DHCPOFFER, DHCPACK, DHCPNAK, DHCPV6_REPLY}
KeyStartLabels == {<<97>>, <<97, 98>>, <<98>>}
KeyEndLabels == {<<97>>, <<98>>}
KeySubnets == {0, 1}
Keys ==
    { DurationKey(f, q, r, s, e, n) :
        <<f, q, r, s, e, n>> \in
            { t \in KeyFamilies \X KeyQueryTypes \X KeyResponseTypes
                    \X KeyStartLabels \X KeyEndLabels \X KeySubnets :
                DurationKeyValid(t[1], t[2], t[3]) } }

InitKey == ka \in Keys /\ kb \in Keys /\ cmp = None

\* The arguments of the constructions: a family that is neither AF_INET nor AF_INET6
\* with the two that are, and every message type from 0 to 8.
CtorFamilies == {0, AF_INET, AF_INET6}
MessageTypes == 0..8

InitKeyCtor == ka = None /\ kb = None /\ cmp = None

\* new DurationKey(family, query_type, response_type, "a", "b", 1)
NewDurationKey(family, query_type, response_type) ==
    /\ ka' = IF DurationKeyValid(family, query_type, response_type)
             THEN Some(DurationKey(family, query_type, response_type, <<97>>, <<98>>, 1))
             ELSE None
    /\ cmp' = Some([family |-> family, query_type |-> query_type,
                    response_type |-> response_type,
                    exc |-> IF DurationKeyValid(family, query_type, response_type)
                            THEN "" ELSE "BadValue"])
    /\ UNCHANGED kb

\* Evaluate ka < kb, kb < ka and ka == kb.
Compare ==
    /\ cmp = None
    /\ cmp' = Some([lt |-> KeyLess(ka, kb), gt |-> KeyLess(kb, ka), eq |-> KeyEquals(ka, kb)])
    /\ UNCHANGED <<ka, kb>>

----------------------------------------------------------------------------
(* DurationDataInterval                                                    *)

\* DurationDataInterval::DurationDataInterval(start_time)
DurationDataInterval(start_time) ==
    [start_time_ |-> start_time, occurrences_ |-> 0,
     min_duration_ |-> PosInfin, max_duration_ |-> NegInfin,
     total_duration_ |-> 0]

\* DurationDataInterval::addDuration with the two comparisons exchanged.
addDurationSwapped(iv, duration) ==
    [iv EXCEPT !.occurrences_ = @ + 1,
               !.min_duration_ = IF duration > @ THEN duration ELSE @,
               !.max_duration_ = IF duration < @ THEN duration ELSE @,
               !.total_duration_ = @ + duration]

\* DurationDataInterval::addDuration
addDuration(iv, duration) ==
    [iv EXCEPT !.occurrences_ = @ + 1,
               !.min_duration_ = IF duration < @ THEN duration ELSE @,
               !.max_duration_ = IF duration > @ THEN duration ELSE @,
               !.total_duration_ = @ + duration]

\* The members DurationDataInterval::addDuration updates, in the order of its statements.
Members == <<"occurrences_", "min_duration_", "max_duration_", "total_duration_">>

\* What one statement of DurationDataInterval::addDuration stores in its member, cur
\* being what the member holds by then and loaded what the statement read of it:
\* ++occurrences_ and total_duration_ += duration store what they computed from the
\* value read, min_duration_ and max_duration_ are assigned the duration when the
\* comparison with the value read says so.
addDurationMember(member, loaded, duration, cur) ==
    CASE member = "occurrences_" -> loaded + 1
      [] member = "min_duration_" -> IF duration < loaded THEN duration ELSE cur
      [] member = "max_duration_" -> IF duration > loaded THEN duration ELSE cur
      [] member = "total_duration_" -> loaded + duration

\* time_duration / int: the tick count divided as C++ divides integers (toward zero).
TruncDiv(a, b) == IF a >= 0 THEN a \div b ELSE -((-a) \div b)

\* DurationDataInterval::getAverageDuration without the division.
getAverageDurationNoDiv(iv) ==
    IF iv.occurrences_ = 0 THEN ZERO_DURATION ELSE iv.total_duration_

\* DurationDataInterval::getAverageDuration
getAverageDuration(iv) ==
    IF iv.occurrences_ = 0 THEN ZERO_DURATION
    ELSE TruncDiv(iv.total_duration_, iv.occurrences_)

\* Bounds of the interval part: the samples a caller passes, the calls made.
Samples == {-2, 0, 1, 3}
MaxAdded == 3
StartTimes == {0, 1}

InitInterval ==
    /\ \E t \in StartTimes : dint = DurationDataInterval(t)
    /\ added = <<>>
    /\ avg = None

IntervalAddDuration(d) ==
    /\ Len(added) < MaxAdded
    /\ dint' = addDuration(dint, d)
    /\ added' = Append(added, d)
    /\ UNCHANGED avg

IntervalGetAverage ==
    /\ avg' = Some([of |-> dint, result |-> getAverageDuration(dint)])
    /\ UNCHANGED <<dint, added>>

----------------------------------------------------------------------------
(* The heap of intervals. MonitoredDuration holds its two intervals through *)
(* shared pointers: a pointer is 0 (empty) or the address of an interval.   *)

MaxIntervals == 3
Addrs == 1..MaxIntervals

\* operator new: the address of the new object (the lowest one not in use).
NewAddr(iv) == CHOOSE a \in Addrs \ DOMAIN iv : \A b \in Addrs \ DOMAIN iv : a <= b
HasFree(iv) == Addrs \ DOMAIN iv # {}

\* shared_ptr release: an interval no pointer refers to any more is destroyed.
Collect(iv, roots) == [a \in (DOMAIN iv) \cap roots |-> iv[a]]

----------------------------------------------------------------------------
(* MonitoredDuration                                                       *)

\* The constructor's test that lets a zero interval duration through.
MonitoredDurationValidOrZero(interval_duration) == interval_duration >= ZERO_DURATION

\* MonitoredDuration::MonitoredDuration(key, interval_duration): TRUE unless it throws.
MonitoredDurationValid(interval_duration) == interval_duration > ZERO_DURATION

MonitoredDuration(key, interval_duration) ==
    [key |-> key, interval_duration_ |-> interval_duration,
     current_interval_ |-> 0, previous_interval_ |-> 0]

\* The intervals an object refers to.
Refs(m) == {m.current_interval_, m.previous_interval_} \ {0}

\* The rotation test of addSample with >= for >.
IntervalElapsedOrEqual(t, start_time, interval_duration) ==
    (t - start_time) >= interval_duration

\* The rotation test of addSample: (now - current_interval_->getStartTime()) > interval_duration_
IntervalElapsed(t, start_time, interval_duration) ==
    (t - start_time) > interval_duration

\* The rotation of addSample that forgets previous_interval_ = current_interval_.
RotateDropPrevious(m, a) == [m EXCEPT !.current_interval_ = a]

\* The rotation of addSample: previous_interval_ = current_interval_; current_interval_.reset(new ...)
Rotate(m, a) ==
    [m EXCEPT !.previous_interval_ = m.current_interval_, !.current_interval_ = a]

\* MonitoredDuration::addSample at time t up to the call of addDuration, lines 230-238:
\* the object with the interval the sample goes to, the heap and the value returned.
CurrentInterval(m, iv, t) ==
    LET hasCurrent == m.current_interval_ # 0
        rotate == hasCurrent /\ IntervalElapsed(t, iv[m.current_interval_].start_time_,
                                                m.interval_duration_)
        a == NewAddr(iv)
        m1 == IF ~hasCurrent THEN [m EXCEPT !.current_interval_ = a]
              ELSE IF rotate THEN Rotate(m, a)
              ELSE m
        iv1 == IF ~hasCurrent \/ rotate THEN (a :> DurationDataInterval(t)) @@ iv ELSE iv
    IN [mond |-> m1, intervals |-> iv1, do_report |-> rotate]

\* MonitoredDuration::addSample at time t: the object, the heap and the value returned.
addSample(m, iv, t, sample) ==
    LET c == CurrentInterval(m, iv, t)
    IN [mond |-> c.mond,
        intervals |-> [c.intervals EXCEPT ![c.mond.current_interval_] =
                          addDuration(@, sample)],
        do_report |-> c.do_report]

\* clear that resets current_interval_ alone.
clearCurrentOnly(m) == [m EXCEPT !.current_interval_ = 0]

\* MonitoredDuration::clear
clear(m) == [m EXCEPT !.current_interval_ = 0, !.previous_interval_ = 0]

\* Bounds of the MonitoredDuration part.
MaxTime == 6
MaxCalls == 3
IntervalDurations == {2, 3}
TheKey == DurationKey(AF_INET, DHCPDISCOVER, DHCPOFFER, <<97>>, <<98>>, 1)

InitDuration ==
    /\ now = 0
    /\ intervals = << >>
    /\ \E L \in IntervalDurations :
          MonitoredDurationValid(L) /\ mond = MonitoredDuration(TheKey, L)
    /\ calls = <<>>

\* The clock advances.
Tick ==
    /\ now < MaxTime
    /\ now' = now + 1
    /\ UNCHANGED intervals

DurAddSample(s) ==
    /\ Len(calls) < MaxCalls
    /\ HasFree(intervals)
    /\ LET r == addSample(mond, intervals, now, s)
       IN /\ mond' = r.mond
          /\ intervals' = Collect(r.intervals, Refs(r.mond))
          /\ calls' = Append(calls, [time |-> now, sample |-> s, report |-> r.do_report])
    /\ UNCHANGED now

DurClear ==
    /\ mond' = clear(mond)
    /\ intervals' = Collect(intervals, Refs(clear(mond)))
    /\ calls' = <<>>
    /\ UNCHANGED now

----------------------------------------------------------------------------
(* MonitoredDurationStore                                                  *)

\* The store of the model: MonitoredDurationStore(AF_INET, StoreInterval).
StoreFamily == AF_INET
StoreInterval == 1

\* MonitoredDurationStore::MonitoredDurationStore: TRUE unless it throws BadValue.
StoreValid(interval_duration) == interval_duration > ZERO_DURATION

\* The copy the store makes with new MonitoredDuration(*mond): monitored_duration.cc
\* defines every member of the class and no copy constructor, so the copy is the
\* member-wise one: the key and the interval duration by value, the two interval
\* pointers as pointers to the same DurationDataInterval objects.
CopyMonitoredDuration(m) ==
    [key |-> m.key, interval_duration_ |-> m.interval_duration_,
     current_interval_ |-> m.current_interval_,
     previous_interval_ |-> m.previous_interval_]

\* The order of the container's DurationKeyTag index: the keys are compared as
\* DurationKey values (index.find(*key)), with DurationKey::operator<.
IndexLess(a, b) == KeyLess(a, b)

\* The ordered index keeps its elements in a red-black tree (the ordered indices of
\* boost::multi_index) and reaches a position by descending from the root, one
\* comparison per node. durations_ is the tree in order; index_ is the tree: its
\* root and, for the node of the element at each position, the positions of its
\* parent and of its left and right child (0 for none, and for the header) and its
\* colour. The shape of the tree is what the inserts, replacements and erasures made
\* it: no call sorts or rebuilds it.
EmptyIndex == [root |-> 0, parent |-> <<>>, left |-> <<>>, right |-> <<>>, color |-> <<>>]

\* The nodes of the tree, as the index's algorithms work on them: node i is the
\* element at position i, 0 stands for no node and for the header.
Tree(seq, ix) ==
    [root |-> ix.root, parent |-> ix.parent, left |-> ix.left, right |-> ix.right,
     color |-> ix.color, values |-> seq]

\* The values the index's algorithms, which are functions, are applied to.
Sides == {"to_left", "to_right"}
Colours == {"red", "black"}
KeyValues ==
    [family_ : Nat, query_type_ : Nat, response_type_ : Nat, start_event_label_ : Seq(Nat),
     end_event_label_ : Seq(Nat), subnet_id_ : Nat]
Elements ==
    [key : KeyValues, interval_duration_ : Int, current_interval_ : Nat, previous_interval_ : Nat]
Trees ==
    [root : Nat, parent : Seq(Nat), left : Seq(Nat), right : Seq(Nat), color : Seq(Colours),
     values : Seq(Elements)]

\* The container a tree stands for: its elements in order, and its shape.
Container(T) ==
    [seq |-> T.values,
     index |-> [root |-> T.root, parent |-> T.parent, left |-> T.left, right |-> T.right,
                color |-> T.color]]

\* Position n once a node is added at position p, or the one at position p removed.
Up(p, n) == IF n >= p THEN n + 1 ELSE n
Down(p, n) == IF n > p THEN n - 1 ELSE n

\* A tree with one more node for the element m, at position p and not linked yet:
\* the nodes from p on stand one position further.
OpenAt[T \in Trees, p \in Nat, m \in Elements] ==
    LET Moved(f) == [i \in 1..(Len(T.values) + 1) |-> IF i = p THEN 0 ELSE Up(p, f[Down(p, i)])]
        Put(f, v) == [i \in 1..(Len(T.values) + 1) |-> IF i = p THEN v ELSE f[Down(p, i)]]
    IN [root |-> Up(p, T.root), parent |-> Moved(T.parent), left |-> Moved(T.left),
        right |-> Moved(T.right), color |-> Put(T.color, "red"), values |-> Put(T.values, m)]

\* A tree without the node at position p, which was unlinked: the nodes after it
\* stand one position nearer.
CloseAt[T \in Trees, p \in Nat] ==
    LET Moved(f) == [i \in 1..(Len(T.values) - 1) |-> Down(p, f[Up(p, i)])]
        Kept(f) == [i \in 1..(Len(T.values) - 1) |-> f[Up(p, i)]]
    IN [root |-> Down(p, T.root), parent |-> Moved(T.parent), left |-> Moved(T.left),
        right |-> Moved(T.right), color |-> Kept(T.color), values |-> Kept(T.values)]

\* ordered_index_node_impl::decrement: the node before n in the order of the index;
\* before the header (0), the last one.
decrement(T, n) == IF n = 0 THEN Len(T.values) ELSE n - 1

\* The leftmost node under n (ordered_index_node_impl::minimum).
minimum[T \in Trees, n \in Nat] == IF T.left[n] = 0 THEN n ELSE minimum[T, T.left[n]]

\* An assignment through a pointer that the code makes for a node only.
Set(f, n, v) == IF n = 0 THEN f ELSE [f EXCEPT ![n] = v]

\* n->color() = c, for a node.
Colour(T, n, c) == IF n = 0 THEN T ELSE [T EXCEPT !.color[n] = c]

\* No node, or a black one.
IsBlack(T, n) == n = 0 \/ T.color[n] = "black"

\* The parent of z (the root reference for the root) refers to n in the place of z.
InPlaceOf[T \in Trees, z \in Nat, n \in Nat] ==
    IF T.root = z THEN [T EXCEPT !.root = n]
    ELSE IF T.left[T.parent[z]] = z THEN [T EXCEPT !.left[T.parent[z]] = n]
    ELSE [T EXCEPT !.right[T.parent[z]] = n]

\* ordered_index_node_impl::rotate_left(x, root): the right child y of x takes the
\* place of x, x becomes its left child and the left subtree of y the right one of x.
rotate_left[T \in Trees, x \in Nat] ==
    LET y == T.right[x]
    IN [InPlaceOf[T, x, y] EXCEPT
           !.right[x] = T.left[y],
           !.parent = Set(Set(Set(@, T.left[y], x), y, T.parent[x]), x, y),
           !.left[y] = x]

\* ordered_index_node_impl::rotate_right(x, root): the left child y of x takes the
\* place of x, x becomes its right child and the right subtree of y the left one of x.
rotate_right[T \in Trees, x \in Nat] ==
    LET y == T.left[x]
    IN [InPlaceOf[T, x, y] EXCEPT
           !.left[x] = T.right[y],
           !.parent = Set(Set(Set(@, T.right[y], x), y, T.parent[x]), x, y),
           !.right[y] = x]

\* A turn of the loop of rebalance for a parent p that is the left child of g: the
\* colours are pushed up, and the loop goes on with g, when the uncle is red too;
\* otherwise g is rotated, after a rotation of p when x is its right child. The
\* result is the tree and the x of the next turn.
RebalanceLeft[T \in Trees, x \in Nat, p \in Nat, g \in Nat] ==
    IF ~IsBlack(T, T.right[g])
    THEN <<Colour(Colour(Colour(T, p, "black"), T.right[g], "black"), g, "red"), g>>
    ELSE IF x = T.right[p]
         THEN <<rotate_right[Colour(Colour(rotate_left[T, p], x, "black"), g, "red"), g], p>>
         ELSE <<rotate_right[Colour(Colour(T, p, "black"), g, "red"), g], x>>

\* The same for a parent p that is the right child of g.
RebalanceRight[T \in Trees, x \in Nat, p \in Nat, g \in Nat] ==
    IF ~IsBlack(T, T.left[g])
    THEN <<Colour(Colour(Colour(T, p, "black"), T.left[g], "black"), g, "red"), g>>
    ELSE IF x = T.left[p]
         THEN <<rotate_left[Colour(Colour(rotate_right[T, p], x, "black"), g, "red"), g], p>>
         ELSE <<rotate_left[Colour(Colour(T, p, "black"), g, "red"), g], x>>

\* The loop of ordered_index_node_impl::rebalance, while the parent of x is red.
RebalanceLoop[T \in Trees, x \in Nat] ==
    IF x = T.root \/ T.color[T.parent[x]] # "red" THEN T
    ELSE LET p == T.parent[x]
         IN IF p = T.left[T.parent[p]] THEN RebalanceLoop[RebalanceLeft[T, x, p, T.parent[p]]]
            ELSE RebalanceLoop[RebalanceRight[T, x, p, T.parent[p]]]

\* ordered_index_node_impl::rebalance(x, root): the red-black repair after x was
\* linked; x is red, the root ends black.
rebalance[T \in Trees, x \in Nat] ==
    LET R == RebalanceLoop[Colour(T, x, "red"), x] IN Colour(R, R.root, "black")

\* ordered_index_node_impl::link(x, side, position, header): x becomes the left or
\* the right child of position, the root when position is the header (0).
link[T \in Trees, x \in Nat, side \in Sides, position \in Nat] ==
    rebalance[[T EXCEPT
                  !.root = IF position = 0 THEN x ELSE @,
                  !.left = Set(IF side = "to_left" THEN Set(@, position, x) ELSE @, x, 0),
                  !.right = Set(IF side = "to_right" THEN Set(@, position, x) ELSE @, x, 0),
                  !.parent[x] = position], x]

\* A turn of the loop of rebalance_for_extract for an x that is the left child of
\* xp, with a black sibling w. With two black children w turns red and the loop goes
\* on with xp; otherwise w (after a rotation of w when its right child is black)
\* takes the colour of xp, xp and the right child of w turn black, xp is rotated
\* and the loop ends. The result is the tree, the x and xp of the next turn and
\* whether the loop ended.
ExtractLeft[T \in Trees, x \in Nat, xp \in Nat] ==
    LET w == T.right[xp]
        S == IF IsBlack(T, T.right[w])
             THEN rotate_right[Colour(Colour(T, T.left[w], "black"), w, "red"), w]
             ELSE T
        v == S.right[xp]
    IN IF IsBlack(T, T.left[w]) /\ IsBlack(T, T.right[w])
       THEN <<Colour(T, w, "red"), xp, T.parent[xp], FALSE>>
       ELSE <<rotate_left[Colour(Colour(Colour(S, v, S.color[xp]), xp, "black"),
                                 S.right[v], "black"), xp],
              x, xp, TRUE>>

\* The same for an x that is the right child of xp.
ExtractRight[T \in Trees, x \in Nat, xp \in Nat] ==
    LET w == T.left[xp]
        S == IF IsBlack(T, T.left[w])
             THEN rotate_left[Colour(Colour(T, T.right[w], "black"), w, "red"), w]
             ELSE T
        v == S.left[xp]
    IN IF IsBlack(T, T.right[w]) /\ IsBlack(T, T.left[w])
       THEN <<Colour(T, w, "red"), xp, T.parent[xp], FALSE>>
       ELSE <<rotate_right[Colour(Colour(Colour(S, v, S.color[xp]), xp, "black"),
                                 S.left[v], "black"), xp],
              x, xp, TRUE>>

\* The loop of rebalance_for_extract after a black node was taken out: x (0 for no
\* node) with parent xp stands for the missing black. A red sibling is made black
\* by a rotation of xp first. The result is the tree and the x the loop ends with.
ExtractLoop[T \in Trees, x \in Nat, xp \in Nat, ended \in BOOLEAN] ==
    IF ended \/ x = T.root \/ ~IsBlack(T, x) THEN [T |-> T, x |-> x]
    ELSE IF x = T.left[xp]
         THEN IF IsBlack(T, T.right[xp]) THEN ExtractLoop[ExtractLeft[T, x, xp]]
              ELSE ExtractLoop[ExtractLeft[
                       rotate_left[Colour(Colour(T, T.right[xp], "black"), xp, "red"), xp],
                       x, xp]]
         ELSE IF IsBlack(T, T.left[xp]) THEN ExtractLoop[ExtractRight[T, x, xp]]
              ELSE ExtractLoop[ExtractRight[
                       rotate_right[Colour(Colour(T, T.left[xp], "black"), xp, "red"), xp],
                       x, xp]]

\* The end of rebalance_for_extract: the repair when the colour that left the tree
\* is black, after which x is black.
Extracted[T \in Trees, removed \in Colours, x \in Nat, xp \in Nat] ==
    IF removed = "red" THEN T
    ELSE LET r == ExtractLoop[T, x, xp, FALSE] IN Colour(r.T, r.x, "black")

\* rebalance_for_extract for a z with two children: y, the leftmost node of the
\* right subtree of z, takes the children, the parent and the colour of z, and the
\* right child of y the place of y.
ExtractInner[T \in Trees, z \in Nat, y \in Nat] ==
    LET far == y # T.right[z]
        A == [T EXCEPT !.parent = Set(@, T.left[z], y), !.left[y] = T.left[z]]
        B == IF far
             THEN [A EXCEPT !.parent = Set(Set(@, T.right[y], T.parent[y]), T.right[z], y),
                            !.left[T.parent[y]] = T.right[y],
                            !.right[y] = T.right[z]]
             ELSE A
    IN Extracted[[InPlaceOf[B, z, y] EXCEPT !.parent[y] = T.parent[z],
                                            !.color[y] = T.color[z],
                                            !.color[z] = T.color[y]],
                 T.color[y], T.right[y], IF far THEN T.parent[y] ELSE y]

\* rebalance_for_extract for a z with at most one child x, which takes its place.
ExtractOuter[T \in Trees, z \in Nat, x \in Nat] ==
    Extracted[InPlaceOf[[T EXCEPT !.parent = Set(@, x, T.parent[z])], z, x],
              T.color[z], x, T.parent[z]]

\* ordered_index_node_impl::rebalance_for_extract(z, root, leftmost, rightmost): z
\* is unlinked and the tree repaired.
rebalance_for_extract[T \in Trees, z \in Nat] ==
    IF T.left[z] = 0 THEN ExtractOuter[T, z, T.right[z]]
    ELSE IF T.right[z] = 0 THEN ExtractOuter[T, z, T.left[z]]
    ELSE ExtractInner[T, z, minimum[T, T.right[z]]]

\* The descent of a lookup (ordered_index_find): left when the node is not less than
\* the key (the node is remembered in y), right otherwise. The result is the
\* remembered node, 0 for none.
LowerBound[T \in Trees, key \in KeyValues, top \in Nat, y \in Nat] ==
    IF top = 0 THEN y
    ELSE IF ~IndexLess(T.values[top].key, key) THEN LowerBound[T, key, T.left[top], top]
    ELSE LowerBound[T, key, T.right[top], y]

\* The end of a lookup: the node the descent ends at is the one looked for unless
\* the key is less.
Found(seq, key, y) == IF y = 0 \/ IndexLess(key, seq[y].key) THEN 0 ELSE y

\* index.find(key): the position of the element with that key, 0 for index.end().
Find(seq, ix, key) == Found(seq, key, LowerBound[Tree(seq, ix), key, ix.root, 0])

\* The descent of an insertion: left when the key is less than the node, right
\* otherwise. The result is the last node on the way and the side taken there.
LinkPoint[T \in Trees, key \in KeyValues, x \in Nat, y \in Nat, c \in BOOLEAN] ==
    IF x = 0 THEN [y |-> y, c |-> c]
    ELSE IF IndexLess(key, T.values[x].key) THEN LinkPoint[T, key, T.left[x], x, TRUE]
    ELSE LinkPoint[T, key, T.right[x], x, FALSE]

\* The side of the node a descent ended at.
SideOf(d) == IF d.c THEN "to_left" ELSE "to_right"

\* ordered_index_impl::link_point(k, inf, ordered_unique_tag): where a new element
\* with key k is linked, or the element that stands in its way. After a descent that
\* ended to the left of the leftmost node nothing is compared; after one that ended
\* to the left of another node the key is compared with the node before it, and
\* after one that ended to the right, with the last node itself.
link_point[T \in Trees, key \in KeyValues] ==
    LET d == LinkPoint[T, key, T.root, 0, TRUE]
        yy == IF d.c THEN decrement(T, d.y) ELSE d.y
    IN IF d.c /\ (T.root = 0 \/ d.y = minimum[T, T.root])
       THEN [ok |-> TRUE, side |-> "to_left", pos |-> d.y]
       ELSE IF IndexLess(T.values[yy].key, key)
            THEN [ok |-> TRUE, side |-> SideOf(d), pos |-> d.y]
            ELSE [ok |-> FALSE, side |-> SideOf(d), pos |-> yy]

\* The lookup insert() starts with: the position of the element that stands in the
\* way of the new key, 0 when there is none.
InsertLookup(seq, ix, key) ==
    LET inf == link_point[Tree(seq, ix), key] IN IF inf.ok THEN 0 ELSE inf.pos

\* The position of a node that is linked to a side of the node at pos.
PlaceAt(side, pos) == IF pos = 0 THEN 1 ELSE IF side = "to_left" THEN pos ELSE pos + 1

\* A node for the element m is linked to a side of the node at pos (the header for
\* 0), and the tree is rebalanced.
LinkNew[T \in Trees, m \in Elements, side \in Sides, pos \in Nat] ==
    LET p == PlaceAt(side, pos) IN link[OpenAt[T, p, m], p, side, Up(p, pos)]

\* Linking a new element into the ordered index: a new node is linked where the
\* descent for its key ends, and the tree is rebalanced.
LinkAt(seq, ix, m) ==
    LET d == LinkPoint[Tree(seq, ix), m.key, ix.root, 0, TRUE]
    IN Container(LinkNew[Tree(seq, ix), m, SideOf(d), d.y])

\* durations_.insert(mond) on the unique index: second is FALSE, and nothing is
\* inserted, when link_point finds an element in the way of the new key; otherwise
\* the new element is linked.
Insert(seq, ix, m) ==
    IF InsertLookup(seq, ix, m.key) = 0
    THEN [second |-> TRUE] @@ LinkAt(seq, ix, m)
    ELSE [second |-> FALSE, seq |-> seq, index |-> ix]

\* ordered_index_impl::in_place(v, x, ordered_unique_tag): the new value can stay in
\* the node of the old one when the element before it is less than the new key and
\* the new key is less than the element after it.
in_place(seq, key, x) ==
    /\ x = 1 \/ IndexLess(seq[x - 1].key, key)
    /\ x = Len(seq) \/ IndexLess(key, seq[x + 1].key)

\* ordered_index_node_impl::restore(x, position, header): the node of the element
\* m, which was taken out of the tree, is linked back before position (0 for the
\* header), the node that followed it.
restore[T \in Trees, m \in Elements, position \in Nat] ==
    IF T.root = 0 \/ (position # 0 /\ T.left[position] = 0)
    THEN LinkNew[T, m, "to_left", position]
    ELSE LinkNew[T, m, "to_right", decrement(T, position)]

\* replace_ for a value v that is not in place in its node, after the node was
\* taken out of the tree: it is linked again with the new value where link_point
\* puts it, or, when an element stands in the way of the new key, put back before
\* next with the value it had.
Relink[T \in Trees, v \in Elements, old \in Elements, next \in Nat] ==
    LET inf == link_point[T, v.key]
    IN IF inf.ok
       THEN [replaced |-> TRUE] @@ Container(LinkNew[T, v, inf.side, inf.pos])
       ELSE [replaced |-> FALSE] @@ Container(restore[T, old, next])

\* The node after the one at position i of n, once that one is taken out: 0 (the
\* header) after the last.
Following(i, n) == IF i = n THEN 0 ELSE i

\* The tree without the node at position i.
Extract(seq, ix, i) == CloseAt[rebalance_for_extract[Tree(seq, ix), i], i]

\* index.replace(iter, value) (ordered_index_impl::replace_): the value is replaced
\* in its node when it is in place there; otherwise the node is taken out of the
\* tree and linked again.
Replace(seq, ix, i, m) ==
    IF in_place(seq, m.key, i)
    THEN [replaced |-> TRUE, seq |-> [seq EXCEPT ![i] = m], index |-> ix]
    ELSE Relink[Extract(seq, ix, i), m, seq[i], Following(i, Len(seq))]

\* durations_.erase(iter) (ordered_index_impl::erase_): the node is taken out of
\* the tree.
Erase(seq, ix, i) == Container(Extract(seq, ix, i))

\* addDuration that adds the sample whatever its value.
PrepareDurationAnySample(key, sample, iv, t) ==
    IF key = None \/ key[1].family_ # StoreFamily \/ ~MonitoredDurationValid(StoreInterval)
    THEN [exc |-> "BadValue", mond |-> None, intervals |-> iv]
    ELSE LET r == addSample(MonitoredDuration(key[1], StoreInterval), iv, t, sample)
         IN [exc |-> "", mond |-> Some(r.mond), intervals |-> r.intervals]

\* addDuration before it locks: the argument checks and the construction of the new
\* duration with its first sample. key is None for an empty pointer.
PrepareDuration(key, sample, iv, t) ==
    IF key = None THEN [exc |-> "BadValue", mond |-> None, intervals |-> iv]
    ELSE IF key[1].family_ # StoreFamily
    THEN [exc |-> "BadValue", mond |-> None, intervals |-> iv]
    ELSE IF ~MonitoredDurationValid(StoreInterval)
    THEN [exc |-> "BadValue", mond |-> None, intervals |-> iv]
    ELSE IF sample > ZERO_DURATION
    THEN LET r == addSample(MonitoredDuration(key[1], StoreInterval), iv, t, sample)
         IN [exc |-> "", mond |-> Some(r.mond), intervals |-> r.intervals]
    ELSE [exc |-> "", mond |-> Some(MonitoredDuration(key[1], StoreInterval)),
          intervals |-> iv]

\* addDuration's test of insert's result: throws DuplicateDurationKey on FALSE.
InsertOutcome(second) == IF second = FALSE THEN "DuplicateDurationKey" ELSE ""

\* MonitoredDurationStore::clear that empties the container.
storeClearEmpties(seq, ix) == [exc |-> "", seq |-> <<>>, index |-> EmptyIndex]

\* MonitoredDurationStore::clear
storeClear(seq, ix) == [exc |-> "NotImplemented", seq |-> seq, index |-> ix]

\* Bounds of the store part.
MaxHeld == 1
MaxStoreTime == 2
MaxOccurrences == 2
Handles == 1..MaxHeld
StoreKeys ==
    { DurationKey(AF_INET, DHCPDISCOVER, DHCPOFFER, <<97>>, <<98>>, 1),
      DurationKey(AF_INET, DHCPDISCOVER, DHCPOFFER, <<97>>, <<98>>, 2),
      DurationKey(AF_INET6, DHCPV6_SOLICIT, DHCPV6_REPLY, <<97>>, <<98>>, 1) }
KeyArgs == {None} \cup {Some(k) : k \in StoreKeys}
\* The key arguments a store of StoreFamily takes, and the empty pointer.
FamilyKeyArgs == {None} \cup {Some(k) : k \in {x \in StoreKeys : x.family_ = StoreFamily}}
\* Three keys of the store's family: the second and the third differ in two fields,
\* in opposite directions, and the first differs from each of them in one direction.
IndexKeys ==
    { DurationKey(AF_INET, DHCPDISCOVER, DHCPOFFER, <<97>>, <<98>>, 1),
      DurationKey(AF_INET, DHCPDISCOVER, DHCPOFFER, <<97>>, <<98>>, 2),
      DurationKey(AF_INET, DHCPREQUEST, DHCPACK, <<97>>, <<98>>, 1) }
IndexKeyArgs == {Some(k) : k \in IndexKeys}
\* The first samples of the store's specification: none, and one.
StoreSamples == {0, 1}
\* The durations of the index's specification are added without a sample.
IndexSamples == {0}
FirstSamples == {-1, 0, 1}
HeldSamples == {1}
RacedSamples == {1, 2, 3}

\* The intervals the stored and the held objects refer to.
RootsOf(seq, hs) ==
    UNION {Refs(seq[i]) : i \in 1..Len(seq)}
        \cup UNION {Refs(hs[h][1]) : h \in {x \in DOMAIN hs : hs[x] # None}}

\* What an object shows to a reader: its members and the contents of its intervals.
View(m, iv) ==
    [key |-> m.key, interval_duration_ |-> m.interval_duration_,
     current |-> IF m.current_interval_ = 0 THEN None ELSE Some(iv[m.current_interval_]),
     previous |-> IF m.previous_interval_ = 0 THEN None ELSE Some(iv[m.previous_interval_])]

Done(op, key, exc) == lastOp' = [op |-> op, key |-> key, exc |-> exc]

InitStore ==
    /\ StoreValid(StoreInterval)
    /\ durations_ = <<>>
    /\ index_ = EmptyIndex
    /\ held = [h \in Handles |-> None]
    /\ collection = None
    /\ lastOp = [op |-> "construct", key |-> None, exc |-> ""]
    /\ now = 0
    /\ intervals = << >>

\* The clock advances by more than the store's interval duration.
StoreTick ==
    /\ now + StoreInterval + 1 <= MaxStoreTime
    /\ now' = now + StoreInterval + 1
    /\ Done("tick", None, "")
    /\ collection' = None
    /\ UNCHANGED <<intervals, durations_, index_, held>>

\* h = store.addDuration(key, sample)
StoreAddDuration(key, sample, h) ==
    /\ HasFree(intervals)
    /\ LET p == PrepareDuration(key, sample, intervals, now)
       IN IF p.exc # ""
          THEN /\ Done("addDuration", key, p.exc)
               /\ UNCHANGED <<durations_, index_, held, intervals>>
          ELSE LET ret == Insert(durations_, index_, p.mond[1])
                   exc == InsertOutcome(ret.second)
                   hs == IF exc = ""
                         THEN [held EXCEPT ![h] = Some(CopyMonitoredDuration(p.mond[1]))]
                         ELSE held
               IN /\ durations_' = ret.seq
                  /\ index_' = ret.index
                  /\ held' = hs
                  /\ intervals' = Collect(p.intervals, RootsOf(ret.seq, hs))
                  /\ Done("addDuration", key, exc)
    /\ collection' = None
    /\ UNCHANGED now

\* h = store.getDuration(key)
StoreGetDuration(key, h) ==
    /\ IF key = None
       THEN /\ Done("getDuration", key, "BadValue")
            /\ UNCHANGED <<held, intervals>>
       ELSE LET i == Find(durations_, index_, key[1])
                hs == [held EXCEPT ![h] = IF i = 0 THEN None
                                          ELSE Some(CopyMonitoredDuration(durations_[i]))]
            IN /\ held' = hs
               /\ intervals' = Collect(intervals, RootsOf(durations_, hs))
               /\ Done("getDuration", key, "")
    /\ collection' = None
    /\ UNCHANGED <<now, durations_, index_>>

\* store.updateDuration(h)
StoreUpdateDuration(h) ==
    /\ IF held[h] = None
       THEN /\ Done("updateDuration", None, "BadValue")
            /\ UNCHANGED <<durations_, index_, intervals>>
       ELSE LET i == Find(durations_, index_, held[h][1].key)
            IN IF i = 0
               THEN /\ Done("updateDuration", Some(held[h][1].key), "InvalidOperation")
                    /\ UNCHANGED <<durations_, index_, intervals>>
               ELSE LET r == Replace(durations_, index_, i, CopyMonitoredDuration(held[h][1]))
                    IN /\ durations_' = r.seq
                       /\ index_' = r.index
                       /\ intervals' = Collect(intervals, RootsOf(r.seq, held))
                       /\ Done("updateDuration", Some(held[h][1].key), "")
    /\ collection' = None
    /\ UNCHANGED <<now, held>>

\* store.deleteDuration(key)
StoreDeleteDuration(key) ==
    /\ IF key = None
       THEN /\ Done("deleteDuration", key, "BadValue")
            /\ UNCHANGED <<durations_, index_, intervals>>
       ELSE LET i == Find(durations_, index_, key[1])
                r == IF i = 0 THEN [seq |-> durations_, index |-> index_]
                     ELSE Erase(durations_, index_, i)
            IN /\ durations_' = r.seq
               /\ index_' = r.index
               /\ intervals' = Collect(intervals, RootsOf(r.seq, held))
               /\ Done("deleteDuration", key, "")
    /\ collection' = None
    /\ UNCHANGED <<now, held>>

\* c = store.getAll(), of which the caller keeps the i-th element in h (none for i = 0).
StoreGetAll(i, h) ==
    /\ i <= Len(durations_)
    /\ collection' = Some([j \in 1..Len(durations_) |-> View(durations_[j], intervals)])
    /\ held' = IF i = 0 THEN held
               ELSE [held EXCEPT ![h] = Some(CopyMonitoredDuration(durations_[i]))]
    /\ intervals' = Collect(intervals, RootsOf(durations_, held'))
    /\ Done("getAll", None, "")
    /\ UNCHANGED <<now, durations_, index_>>

\* store.clear()
StoreClear ==
    /\ durations_' = storeClear(durations_, index_).seq
    /\ index_' = storeClear(durations_, index_).index
    /\ intervals' = Collect(intervals, RootsOf(durations_', held))
    /\ Done("storeClear", None, storeClear(durations_, index_).exc)
    /\ collection' = None
    /\ UNCHANGED <<now, held>>

\* h->addSample(sample) on an object the caller holds
HeldAddSample(h, sample) ==
    /\ held[h] # None
    /\ HasFree(intervals)
    /\ held[h][1].current_interval_ # 0 =>
          intervals[held[h][1].current_interval_].occurrences_ < MaxOccurrences
    /\ LET r == addSample(held[h][1], intervals, now, sample)
       IN /\ held' = [held EXCEPT ![h] = Some(r.mond)]
          /\ intervals' = Collect(r.intervals, RootsOf(durations_, held'))
    /\ Done("addSample", None, "")
    /\ collection' = None
    /\ UNCHANGED <<now, durations_, index_>>

\* h->clear() on an object the caller holds
HeldClear(h) ==
    /\ held[h] # None
    /\ held' = [held EXCEPT ![h] = Some(clear(held[h][1]))]
    /\ intervals' = Collect(intervals, RootsOf(durations_, held'))
    /\ Done("clear", None, "")
    /\ collection' = None
    /\ UNCHANGED <<now, durations_, index_>>

\* Constructions a caller of the store makes, with interval durations of every sign.
CtorIntervals == {-1, 0, 1}
CtorResponses == {DHCPOFFER, DHCPACK}

Constructed(op, key, interval_duration, exc) ==
    /\ lastOp' = [op |-> op, key |-> key, exc |-> exc,
                  interval_duration |-> interval_duration]
    /\ collection' = None
    /\ UNCHANGED <<now, intervals, durations_, index_, held>>

\* MonitoredDurationStore(family, interval_duration), lines 19-25
NewStore(family, interval_duration) ==
    Constructed("MonitoredDurationStore", None, interval_duration,
                IF StoreValid(interval_duration) THEN "" ELSE "BadValue")

\* MonitoredDuration(key, interval_duration), lines 216-226
NewDurationFromKey(key, interval_duration) ==
    Constructed("MonitoredDuration", Some(key), interval_duration,
                IF MonitoredDurationValid(interval_duration) THEN "" ELSE "BadValue")

\* MonitoredDuration(family, query_type, response_type, start_event_label,
\* end_event_label, subnet_id, interval_duration), lines 199-214: the DurationKey part
\* is constructed first.
NewDurationFromFields(family, query_type, response_type, interval_duration) ==
    Constructed("MonitoredDuration",
                IF DurationKeyValid(family, query_type, response_type)
                THEN Some(DurationKey(family, query_type, response_type, <<97>>, <<98>>, 1))
                ELSE None,
                interval_duration,
                IF ~DurationKeyValid(family, query_type, response_type) THEN "BadValue"
                ELSE IF MonitoredDurationValid(interval_duration) THEN "" ELSE "BadValue")

----------------------------------------------------------------------------
(* MonitoredDurationStore called from several threads. A call runs in steps:  *)
(* the part before the lock, taking the mutex (MultiThreadingLock), the       *)
(* container's lookup, the container's change or the copy made under the      *)
(* lock, and leaving the lock's scope with what follows it.                   *)

NThreads == 2
MaxOps == 2
Threads == 1..NThreads
\* The threads add durations, without a sample, for the null key and the keys of the
\* index, two of which operator< orders both ways; they look up and delete the null key
\* and one of the keys ordered both ways.
MTKeyArgs == {None} \cup IndexKeyArgs
MTLookupKeyArgs ==
    {None, Some(DurationKey(AF_INET, DHCPDISCOVER, DHCPOFFER, <<97>>, <<98>>, 2))}
MTSamples == {1}

\* MultiThreadingLock lock(*mutex_): the thread goes on once the mutex is free.
CanLock(m) == m = 0

Frame(op, key, m, t) ==
    [op |-> op, key |-> key, mond |-> m, iter |-> 0, seen |-> <<>>, exc |-> "",
     coll |-> <<>>,
     overlap |-> \E u \in Threads \ {t} : pc[u] # "idle"]

\* The intervals reachable from the container, the threads' objects and their frames.
RootsOfMT(seq, hs, fs) ==
    RootsOf(seq, hs)
        \cup UNION {Refs(fs[t][1].mond[1]) :
                      t \in {x \in DOMAIN fs : fs[x] # None /\ fs[x][1].mond # None}}
        \cup UNION {UNION {Refs(fs[t][1].coll[i]) : i \in DOMAIN fs[t][1].coll} :
                      t \in {x \in DOMAIN fs : fs[x] # None}}

InitMT ==
    /\ StoreValid(StoreInterval)
    /\ durations_ = <<>>
    /\ index_ = EmptyIndex
    /\ held = [t \in Threads |-> None]
    /\ collection = None
    /\ lastOp = None
    /\ now = 0
    /\ intervals = << >>
    /\ mutex_ = 0
    /\ pc = [t \in Threads |-> "idle"]
    /\ frame = [t \in Threads |-> None]
    /\ hist = [t \in Threads |-> <<>>]

\* A call that ends before it takes the lock.
EndEarly(t, op, key, exc) ==
    /\ hist' = [hist EXCEPT ![t] = Append(@,
                   [op |-> op, key |-> key, exc |-> exc,
                    overlap |-> \E u \in Threads \ {t} : pc[u] # "idle"])]
    /\ UNCHANGED <<pc, frame, intervals>>

\* A call that goes on to take the lock.
Enter(t, op, key, m, iv) ==
    /\ frame' = [frame EXCEPT ![t] = Some(Frame(op, key, m, t))]
    /\ pc' = [pc EXCEPT ![t] = "lock"]
    /\ intervals' = iv
    /\ UNCHANGED hist

CanCall(t) == pc[t] = "idle" /\ Len(hist[t]) < MaxOps

\* addDuration, lines 30-50
MTCallAdd(t, key, sample) ==
    /\ CanCall(t)
    /\ HasFree(intervals)
    /\ LET p == PrepareDuration(key, sample, intervals, now)
       IN IF p.exc # "" THEN EndEarly(t, "addDuration", key, p.exc)
          ELSE Enter(t, "addDuration", key, p.mond, p.intervals)
    /\ UNCHANGED <<now, durations_, index_, held, collection, lastOp, mutex_>>

\* getDuration, lines 69-71
MTCallGet(t, key) ==
    /\ CanCall(t)
    /\ IF key = None THEN EndEarly(t, "getDuration", key, "BadValue")
       ELSE Enter(t, "getDuration", key, None, intervals)
    /\ UNCHANGED <<now, durations_, index_, held, collection, lastOp, mutex_>>

\* updateDuration with the thread's own object, lines 91-93
MTCallUpdate(t) ==
    /\ CanCall(t)
    /\ IF held[t] = None THEN EndEarly(t, "updateDuration", None, "BadValue")
       ELSE Enter(t, "updateDuration", Some(held[t][1].key), held[t], intervals)
    /\ UNCHANGED <<now, durations_, index_, held, collection, lastOp, mutex_>>

\* deleteDuration, lines 109-111
MTCallDelete(t, key) ==
    /\ CanCall(t)
    /\ IF key = None THEN EndEarly(t, "deleteDuration", key, "BadValue")
       ELSE Enter(t, "deleteDuration", key, None, intervals)
    /\ UNCHANGED <<now, durations_, index_, held, collection, lastOp, mutex_>>

\* getAll
MTCallGetAll(t) ==
    /\ CanCall(t)
    /\ Enter(t, "getAll", None, None, intervals)
    /\ UNCHANGED <<now, durations_, index_, held, collection, lastOp, mutex_>>

\* MultiThreadingLock lock(*mutex_)
MTLock(t) ==
    /\ pc[t] = "lock"
    /\ CanLock(mutex_)
    /\ mutex_' = t
    /\ pc' = [pc EXCEPT ![t] = "find"]
    /\ UNCHANGED <<now, intervals, durations_, index_, held, collection, lastOp, frame, hist>>

\* index.find(key), or the lookup insert() starts with; getAll takes index.begin().
\* iter is the position found, 0 for index.end().
MTFind(t) ==
    /\ pc[t] = "find"
    /\ LET f == frame[t][1]
           i == IF f.op = "getAll" THEN (IF durations_ = <<>> THEN 0 ELSE 1)
                ELSE IF f.op = "addDuration"
                THEN InsertLookup(durations_, index_, f.mond[1].key)
                ELSE IF f.op = "updateDuration"
                THEN Find(durations_, index_, f.mond[1].key)
                ELSE Find(durations_, index_, f.key[1])
       IN frame' = [frame EXCEPT ![t] = Some([f EXCEPT !.iter = i, !.seen = durations_])]
    /\ pc' = [pc EXCEPT ![t] = "apply"]
    /\ UNCHANGED <<now, intervals, durations_, index_, held, collection, lastOp, mutex_, hist>>

\* An iterator that is index.end(), or that no longer points into the container.
AtEnd(f, seq) == f.iter = 0 \/ f.iter > Len(seq)

\* What the call does with the position it found: the container, the object the
\* thread gets, the exception thrown, the collection getAll is filling and the
\* iterator it goes on with (done: the call leaves the lock's scope next).
ApplyAt(f, seq, ix, mine) ==
    LET r == [seq |-> seq, index |-> ix, mine |-> mine, exc |-> "", coll |-> f.coll,
              iter |-> f.iter, done |-> TRUE]
        With(c) == [r EXCEPT !.seq = c.seq, !.index = c.index]
    IN CASE f.op = "addDuration" ->
              [(IF f.iter = 0 THEN With(LinkAt(seq, ix, f.mond[1])) ELSE r)
                  EXCEPT !.exc = InsertOutcome(f.iter = 0)]
         [] f.op = "getDuration" ->
              [r EXCEPT !.mine = IF AtEnd(f, seq) THEN None
                                 ELSE Some(CopyMonitoredDuration(seq[f.iter]))]
         [] f.op = "updateDuration" ->
              [(IF AtEnd(f, seq) THEN r
                ELSE With(Replace(seq, ix, f.iter, CopyMonitoredDuration(f.mond[1]))))
                  EXCEPT !.exc = IF f.iter = 0 THEN "InvalidOperation" ELSE ""]
         [] f.op = "deleteDuration" ->
              IF AtEnd(f, seq) THEN r ELSE With(Erase(seq, ix, f.iter))
         [] f.op = "getAll" ->
              IF AtEnd(f, seq) THEN r
              ELSE [r EXCEPT !.coll = Append(f.coll, CopyMonitoredDuration(seq[f.iter])),
                             !.iter = IF f.iter < Len(seq) THEN f.iter + 1 ELSE 0,
                             !.done = FALSE]

\* One step inside the lock: the container's change, the copy, or one turn of
\* getAll's loop.
MTApply(t) ==
    /\ pc[t] = "apply"
    /\ LET f == frame[t][1]
           r == ApplyAt(f, durations_, index_, held[t])
       IN /\ durations_' = r.seq
          /\ index_' = r.index
          /\ held' = [held EXCEPT ![t] = r.mine]
          /\ frame' = [frame EXCEPT ![t] =
                          Some([f EXCEPT !.exc = r.exc, !.coll = r.coll, !.iter = r.iter])]
          /\ pc' = [pc EXCEPT ![t] = IF r.done THEN "unlock" ELSE "apply"]
          /\ intervals' = Collect(intervals, RootsOfMT(r.seq, held', frame'))
    /\ UNCHANGED <<now, collection, lastOp, mutex_, hist>>

\* A lock that is released by hand on the way that returns, and not on the one that
\* throws.
ScopeExitOnReturn(t, exc) == IF exc = "" THEN 0 ELSE t

\* The mutex once the MultiThreadingLock object goes out of scope, by return or by
\* the exception thrown inside the scope: released.
ScopeExit(t, exc) == 0

\* The lock's scope ends (by return or by the exception), and addDuration returns a
\* copy of what it inserted.
MTUnlock(t) ==
    /\ pc[t] = "unlock"
    /\ mutex_' = ScopeExit(t, frame[t][1].exc)
    /\ LET f == frame[t][1]
       IN /\ held' = IF f.op = "addDuration"
                     THEN [held EXCEPT ![t] = IF f.exc = ""
                                              THEN Some(CopyMonitoredDuration(f.mond[1]))
                                              ELSE @]
                     ELSE held
          /\ hist' = [hist EXCEPT ![t] = Append(@,
                         [op |-> f.op, key |-> f.key, exc |-> f.exc, overlap |-> f.overlap])]
    /\ frame' = [frame EXCEPT ![t] = None]
    /\ pc' = [pc EXCEPT ![t] = "idle"]
    /\ intervals' = Collect(intervals, RootsOfMT(durations_, held', frame'))
    /\ UNCHANGED <<now, durations_, index_, collection, lastOp>>

\* Two worker threads that sample one stored duration, each with getDuration,
\* addSample on the object it got and updateDuration with it. calls are the samples
\* given so far, the one of the addDuration that stored the record included.
InitSampling ==
    /\ StoreValid(StoreInterval)
    /\ \E s \in FirstSamples :
          LET p == PrepareDuration(Some(TheKey), s, << >>, 0)
              ret == Insert(<<>>, EmptyIndex, p.mond[1])
          IN /\ durations_ = ret.seq
             /\ index_ = ret.index
             /\ intervals = Collect(p.intervals, RootsOf(ret.seq, <<>>))
             /\ calls = IF s > ZERO_DURATION
                        THEN <<[time |-> 0, sample |-> s, report |-> FALSE, by |-> 0,
                                at |-> 0, loaded |-> None]>>
                        ELSE <<>>
    /\ held = [t \in Threads |-> None]
    /\ collection = None
    /\ lastOp = None
    /\ now = 0
    /\ mutex_ = 0
    /\ pc = [t \in Threads |-> "idle"]
    /\ frame = [t \in Threads |-> None]
    /\ hist = [t \in Threads |-> <<>>]

\* The thread's addSample is inside current_interval_->addDuration(sample): the entry
\* holds the member whose statement is next, and the value read of it once it is read.
Sampling(t) == \E i \in 1..Len(calls) : calls[i].by = t /\ calls[i].at # 0

\* The thread's addSample has returned.
Sampled(t) == \E i \in 1..Len(calls) : calls[i].by = t /\ calls[i].at = 0

\* The clock advances while the threads work.
SampleTick ==
    /\ now < MaxStoreTime
    /\ now' = now + 1
    /\ UNCHANGED <<intervals, calls, durations_, index_, held, collection, lastOp, mutex_, pc, frame,
                   hist>>

\* mond = store.getDuration(key), the first call of the thread
SampleGet(t) ==
    /\ hist[t] = <<>>
    /\ MTCallGet(t, Some(TheKey))
    /\ UNCHANGED calls

\* mond->addSample(sample) on the object getDuration returned, outside the store and
\* under no lock, up to current_interval_->addDuration(sample): the interval the
\* sample goes to is the one the stored record and the other threads' objects share,
\* unless the thread starts a new one.
SampleAdd(t, sample) ==
    /\ pc[t] = "idle"
    /\ Len(hist[t]) = 1
    /\ held[t] # None
    /\ ~Sampled(t) /\ ~Sampling(t)
    /\ HasFree(intervals)
    /\ LET c == CurrentInterval(held[t][1], intervals, now)
       IN /\ held' = [held EXCEPT ![t] = Some(c.mond)]
          /\ intervals' = Collect(c.intervals, RootsOfMT(durations_, held', frame))
          /\ calls' = Append(calls, [time |-> now, sample |-> sample,
                                     report |-> c.do_report, by |-> t,
                                     at |-> 1, loaded |-> None])
    /\ UNCHANGED <<now, durations_, index_, collection, lastOp, mutex_, pc, frame, hist>>

\* DurationDataInterval::addDuration(sample) of the thread's addSample, lines 30-41,
\* runs under no lock on an interval other threads' objects share. Each of its four
\* statements reads its member and then writes it, and another thread's reads and
\* writes come between any two of these. This is the read of the next statement.
SampleLoad(t) ==
    /\ Sampling(t)
    /\ LET i == CHOOSE j \in 1..Len(calls) : calls[j].by = t
           a == held[t][1].current_interval_
       IN /\ calls[i].loaded = None
          /\ calls' = [calls EXCEPT ![i].loaded = Some(intervals[a][Members[calls[i].at]])]
    /\ UNCHANGED <<now, intervals, durations_, index_, held, collection, lastOp, mutex_, pc,
                   frame, hist>>

\* The write of the statement that has read its member; after the last statement
\* addDuration and addSample return.
SampleStore(t) ==
    /\ Sampling(t)
    /\ LET i == CHOOSE j \in 1..Len(calls) : calls[j].by = t
           a == held[t][1].current_interval_
           member == Members[calls[i].at]
       IN /\ calls[i].loaded # None
          /\ intervals' = [intervals EXCEPT ![a][member] =
                              addDurationMember(member, calls[i].loaded[1], calls[i].sample, @)]
          /\ calls' = [calls EXCEPT ![i].loaded = None,
                                    ![i].at = IF @ = Len(Members) THEN 0 ELSE @ + 1]
    /\ UNCHANGED <<now, durations_, index_, held, collection, lastOp, mutex_, pc, frame, hist>>

\* store.updateDuration(mond) with the sampled object
SampleUpdate(t) ==
    /\ Len(hist[t]) = 1
    /\ Sampled(t)
    /\ MTCallUpdate(t)
    /\ UNCHANGED calls

----------------------------------------------------------------------------
(* The statistics manager. stats is global_->stats_: the observations by    *)
(* name. An observation is its type and the value of its sample; a float    *)
(* value is counted in halves, a duration in microseconds, a string is a    *)
(* sequence of character codes.                                             *)

StatTypes == {"STAT_INTEGER", "STAT_FLOAT", "STAT_DURATION", "STAT_STRING"}
StatNames == {"a", "b"}
MaxStatValue == 2
MaxStatLen == 2

SampleAges == {1}
SampleCounts == {1}

StatValues(type) ==
    CASE type = "STAT_INTEGER" -> {1}
      [] type = "STAT_FLOAT" -> {2}
      [] type = "STAT_DURATION" -> {2}
      [] type = "STAT_STRING" -> {<<120>>}

\* Observation(name, value): the constructor fixes the type by its overload.
Observation(type, value) == [type_ |-> type, value |-> value]

\* The neutral value reset() sets: 0, 0.0, a zero duration or "".
Neutral(type) == IF type = "STAT_STRING" THEN <<>> ELSE 0

\* Observation::setValue(value) of the overload for type.
ObsSetValue(obs, type, value) ==
    IF obs.type_ # type
    THEN [exc |-> "InvalidStatType", obs |-> obs]
    ELSE [exc |-> "", obs |-> [obs EXCEPT !.value = value]]

\* Observation::addValue(value) of the overload for type: the sum, or the
\* concatenation for strings.
ObsAddValue(obs, type, value) ==
    IF obs.type_ # type
    THEN [exc |-> "InvalidStatType", obs |-> obs]
    ELSE [exc |-> "",
          obs |-> [obs EXCEPT !.value = IF type = "STAT_STRING" THEN @ \o value
                                        ELSE @ + value]]

\* Observation::reset()
ObsReset(obs) == [obs EXCEPT !.value = Neutral(obs.type_)]

\* StatContext::del(name)
ContextDel(st, name) == [n \in (DOMAIN st) \ {name} |-> st[n]]

\* StatsMgr::setValueInternal(name, value): sets the observation of that name,
\* or adds a new one when there is none.
setValueInternal(st, name, type, value) ==
    IF name \in DOMAIN st
    THEN LET r == ObsSetValue(st[name], type, value)
         IN [exc |-> r.exc, stats |-> [st EXCEPT ![name] = r.obs]]
    ELSE [exc |-> "",
          stats |-> [n \in (DOMAIN st) \cup {name} |->
                        IF n = name THEN Observation(type, value) ELSE st[n]]]

\* StatsMgr::addValueInternal(name, value): adds to the observation of that name,
\* or records the value as a new statistic when there is none.
addValueInternal(st, name, type, value) ==
    IF name \in DOMAIN st
    THEN LET r == ObsAddValue(st[name], type, value)
         IN [exc |-> r.exc, stats |-> [st EXCEPT ![name] = r.obs]]
    ELSE setValueInternal(st, name, type, value)

\* StatsMgr::setValue, one overload per type, lines 37-50
setValue(st, name, type, value) == setValueInternal(st, name, type, value)

\* addValue taken for setValue: the value replaces the current one.
addValueReplaces(st, name, type, value) == setValueInternal(st, name, type, value)

\* The float overload taken for the integer one (the value converted).
addValueFloatAsInteger(st, name, type, value) ==
    IF type = "STAT_FLOAT"
    THEN addValueInternal(st, name, "STAT_INTEGER", value \div 2)
    ELSE addValueInternal(st, name, type, value)

\* StatsMgr::addValue, one overload per type, lines 52-66
addValue(st, name, type, value) == addValueInternal(st, name, type, value)

\* setMaxSampleAge that is taken without a word.
setMaxSampleAgeAccepted(st, name, duration) == [exc |-> "", stats |-> st]

\* StatsMgr::setMaxSampleAge(name, duration): isc_throw(NotImplemented)
setMaxSampleAge(st, name, duration) == [exc |-> "NotImplemented", stats |-> st]

\* StatsMgr::setMaxSampleCount(name, max_samples): isc_throw(NotImplemented)
setMaxSampleCount(st, name, max_samples) == [exc |-> "NotImplemented", stats |-> st]

\* The samples an observation retains: the latest one.
SampleCount(obs) == 1

\* StatsMgr::reset(name)
reset(st, name) ==
    IF name \in DOMAIN st
    THEN [result |-> TRUE, stats |-> [st EXCEPT ![name] = ObsReset(@)]]
    ELSE [result |-> FALSE, stats |-> st]

\* del that reports a statistic removed whether there was one or not.
delReportsRemoved(st, name) == [result |-> TRUE, stats |-> ContextDel(st, name)]

\* StatsMgr::del(name)
del(st, name) == [result |-> name \in DOMAIN st, stats |-> ContextDel(st, name)]

\* StatsMgr::removeAll()
removeAll(st) == << >>

\* resetAll whose loop ends after the first statistic.
resetAllFirstOnly(st) ==
    [n \in DOMAIN st |-> IF n = "a" \/ "a" \notin DOMAIN st
                         THEN ObsReset(st[n]) ELSE st[n]]

\* StatsMgr::resetAll()
resetAll(st) == [n \in DOMAIN st |-> ObsReset(st[n])]

\* Observation::getJSON(): the list of samples, here the one sample's value.
getJSON(obs) == <<[value |-> obs.value]>>

\* get that answers with an entry for the name whether it is stored or not.
getAlwaysEntry(st, name) ==
    [n \in {name} |-> IF name \in DOMAIN st THEN getJSON(st[name]) ELSE << >>]

\* StatsMgr::get(name): a map that holds the observation when there is one.
get(st, name) ==
    IF name \in DOMAIN st THEN [n \in {name} |-> getJSON(st[name])] ELSE << >>

\* StatsMgr::getAll(): a map with every stored statistic.
getAll(st) == [n \in DOMAIN st |-> getJSON(st[n])]

\* StatsMgr::count()
count(st) == Cardinality(DOMAIN st)

\* Control-channel result codes.
CONTROL_RESULT_SUCCESS == 0
CONTROL_RESULT_ERROR == 1

\* Elements a command's parameters are made of.
StringElement(str) == [type |-> "string", value |-> str]
IntElement(i) == [type |-> "integer", value |-> i]

\* Element::stringValue(): only a string element has one.
stringValue(e) ==
    IF e.type = "string" THEN [exc |-> "", value |-> e.value]
    ELSE [exc |-> "TypeError", value |-> ""]

\* createAnswer(status, text) and createAnswer(status, arguments)
createAnswerText(status, text) == [result |-> status, text |-> text, arguments |-> None]
createAnswerArgs(status, arg) == [result |-> status, text |-> <<>>, arguments |-> Some(arg)]

\* A handler returns a response, or ends with an exception.
Returns(rsp, st) == [exc |-> "", rsp |-> Some(rsp), stats |-> st]
Throws(exc, st) == [exc |-> exc, rsp |-> None, stats |-> st]

MissingName == createAnswerText(CONTROL_RESULT_ERROR, <<"Missing mandatory 'name' parameter.">>)
NameNotString ==
    createAnswerText(CONTROL_RESULT_ERROR, <<"'name' parameter expected to be a string.">>)

\* StatsMgr::statisticGetHandler, lines 149-166
statisticGetHandler(st, params) ==
    IF params = None THEN Returns(MissingName, st)
    ELSE IF "name" \notin DOMAIN params[1] THEN Returns(MissingName, st)
    ELSE IF params[1].name.type # "string" THEN Returns(NameNotString, st)
    ELSE Returns(createAnswerArgs(CONTROL_RESULT_SUCCESS,
                                  get(st, stringValue(params[1].name).value)), st)

\* StatsMgr::statisticResetHandler, lines 168-192
statisticResetHandler(st, params) ==
    IF params = None THEN Returns(MissingName, st)
    ELSE IF "name" \notin DOMAIN params[1] THEN Returns(MissingName, st)
    ELSE IF params[1].name.type # "string" THEN Returns(NameNotString, st)
    ELSE LET name == stringValue(params[1].name).value
             r == reset(st, name)
         IN IF r.result
            THEN Returns(createAnswerText(CONTROL_RESULT_SUCCESS,
                                          <<"Statistic '", name, "' reset.">>), r.stats)
            ELSE Returns(createAnswerText(CONTROL_RESULT_ERROR,
                                          <<"No '", name, "' statistic found">>), r.stats)

\* StatsMgr::statisticRemoveHandler, lines 194-214: the name's type is not looked at
\* before stringValue() is called on it.
statisticRemoveHandler(st, params) ==
    IF params = None THEN Returns(MissingName, st)
    ELSE IF "name" \notin DOMAIN params[1] THEN Returns(MissingName, st)
    ELSE LET sv == stringValue(params[1].name)
             r == del(st, sv.value)
         IN IF sv.exc # "" THEN Throws(sv.exc, st)
            ELSE IF r.result
            THEN Returns(createAnswerText(CONTROL_RESULT_SUCCESS,
                                          <<"Statistic '", sv.value, "' removed.">>), r.stats)
            ELSE Returns(createAnswerText(CONTROL_RESULT_ERROR,
                                          <<"No '", sv.value, "' statistic found">>), r.stats)

\* StatsMgr::statisticRemoveAllHandler, lines 216-222
statisticRemoveAllHandler(st, params) ==
    Returns(createAnswerText(CONTROL_RESULT_SUCCESS, <<"All statistics removed.">>),
            removeAll(st))

\* StatsMgr::statisticGetAllHandler, lines 224-229
statisticGetAllHandler(st, params) ==
    Returns(createAnswerArgs(CONTROL_RESULT_SUCCESS, getAll(st)), st)

\* StatsMgr::statisticResetAllHandler, lines 231-237
statisticResetAllHandler(st, params) ==
    Returns(createAnswerText(CONTROL_RESULT_SUCCESS,
                             <<"All statistics reset to neutral values.">>),
            resetAll(st))

\* The parameters a command comes with: none, a map without a name, a name that is
\* a string, a name that is not.
CommandParams ==
    {None, Some(<< >>), Some([name |-> StringElement("a")]),
     Some([name |-> StringElement("b")]), Some([name |-> IntElement(7)])}

\* The values stay within the bounds of the model.
StatsBounded(st) ==
    \A n \in DOMAIN st :
        IF st[n].type_ = "STAT_STRING" THEN Len(st[n].value) <= MaxStatLen
        ELSE st[n].value <= MaxStatValue

\* The type each name was first recorded with.
Record(ty, st) ==
    [n \in (DOMAIN ty) \cup (DOMAIN st) |-> IF n \in DOMAIN ty THEN ty[n] ELSE st[n].type_]

\* What a call leaves behind: the statistics, and the call with what it was given
\* and what it gave back (exc: the exception thrown, "" for none).
StatDone(op, name, type, value, exc, rsp, st) ==
    /\ stats' = st
    /\ typed' = Record(typed, st)
    /\ lastStat' = [op |-> op, name |-> name, type |-> type, value |-> value,
                    exc |-> exc, rsp |-> rsp]

InitStats ==
    /\ stats = << >>
    /\ typed = << >>
    /\ lastStat = [op |-> "construct", name |-> "", type |-> "", value |-> None,
                   exc |-> "", rsp |-> None]

StatsSetValue(name, type, value) ==
    LET r == setValue(stats, name, type, value)
    IN /\ StatsBounded(r.stats)
       /\ StatDone("setValue", name, type, Some(value), r.exc, None, r.stats)

StatsAddValue(name, type, value) ==
    LET r == addValue(stats, name, type, value)
    IN /\ StatsBounded(r.stats)
       /\ StatDone("addValue", name, type, Some(value), r.exc, None, r.stats)

StatsReset(name) ==
    LET r == reset(stats, name)
    IN StatDone("reset", name, "", None, "", Some(r.result), r.stats)

StatsDel(name) ==
    LET r == del(stats, name)
    IN StatDone("del", name, "", None, "", Some(r.result), r.stats)

StatsRemoveAll ==
    StatDone("removeAll", "", "", None, "", None, removeAll(stats))

StatsResetAll ==
    StatDone("resetAll", "", "", None, "", None, resetAll(stats))

\* StatsMgr::setMaxSampleAge(name, duration)
StatsSetMaxSampleAge(name, duration) ==
    LET r == setMaxSampleAge(stats, name, duration)
    IN StatDone("setMaxSampleAge", name, "", Some(duration), r.exc, None, r.stats)

\* StatsMgr::setMaxSampleCount(name, max_samples)
StatsSetMaxSampleCount(name, max_samples) ==
    LET r == setMaxSampleCount(stats, name, max_samples)
    IN StatDone("setMaxSampleCount", name, "", Some(max_samples), r.exc, None, r.stats)

\* A command arrives with its parameters and its handler answers.
StatCommand(cmd, params, r) ==
    StatDone(cmd, "", "", Some(params), r.exc, r.rsp, r.stats)

StatsStatisticGet(params) ==
    StatCommand("statistic-get", params, statisticGetHandler(stats, params))

StatsStatisticReset(params) ==
    StatCommand("statistic-reset", params, statisticResetHandler(stats, params))

StatsStatisticRemove(params) ==
    StatCommand("statistic-remove", params, statisticRemoveHandler(stats, params))

StatsStatisticRemoveAll(params) ==
    StatCommand("statistic-remove-all", params, statisticRemoveAllHandler(stats, params))

StatsStatisticGetAll(params) ==
    StatCommand("statistic-get-all", params, statisticGetAllHandler(stats, params))

StatsStatisticResetAll(params) ==
    StatCommand("statistic-reset-all", params, statisticResetAllHandler(stats, params))

----------------------------------------------------------------------------
(* The statistics manager called from several threads. Neither StatsMgr nor *)
(* Observation takes a lock, so a call's steps interleave with the other    *)
(* threads': looking the observation up, reading its value, writing it. A   *)
(* thread holds the observation it looked up through a shared pointer; when *)
(* the manager drops that observation meanwhile, the thread goes on with an *)
(* object that is no longer stored (gone), and its writes do not reach the  *)
(* statistics.                                                              *)

SharedName == "a"
SharedOps == {"addValue", "removeAll", "del", "resetAll"}

InitStatsMT ==
    /\ stats = << >>
    /\ typed = None
    /\ lastStat = None
    /\ fault = ""
    /\ mutex_ = 0
    /\ pc = [t \in Threads |-> "idle"]
    /\ frame = [t \in Threads |-> None]
    /\ hist = [t \in Threads |-> <<>>]

\* A call's locals: the call, whether it holds an observation (existing), whether
\* that observation was dropped by the manager since (gone) and the value it had
\* then, and the value read from it (current).
StatFrame(op) ==
    [op |-> op, name |-> SharedName, value |-> 1, existing |-> FALSE, gone |-> FALSE,
     object |-> 0, current |-> 0]

\* The call returns, or ends with exc.
StatReturn(t, exc) ==
    /\ hist' = [hist EXCEPT ![t] = Append(@, [op |-> frame[t][1].op, exc |-> exc])]
    /\ frame' = [frame EXCEPT ![t] = None]
    /\ pc' = [pc EXCEPT ![t] = "idle"]

\* The process has not been ended by a signal.
Alive == fault # "killed"

\* Thread t is changing stats_: inside the insert of StatContext::add, the erase of
\* del or the clear of removeAll.
Writing(t) == pc[t] \in {"inserting", "running"}

\* No lock orders the accesses to stats_. An access of thread t that overlaps another
\* thread's change of the container is a data race, and so is every access to a
\* container a race has corrupted.
Raced(t) == fault = "corrupt" \/ \E u \in Threads \ {t} : Writing(u)

\* What an access of thread t to stats_ does to the process: nothing without a race;
\* a raced access may also end the process by a signal (SIGSEGV, SIGABRT) or leave
\* the container corrupt (a wrapped size, entries lost).
RaceOutcomes(t) == IF Raced(t) THEN {fault, "killed", "corrupt"} ELSE {fault}

\* A thread calls addValue(name, 1) of the integer overload, removeAll(), del(name)
\* or resetAll().
SMCall(t, op) ==
    /\ Alive
    /\ CanCall(t)
    /\ frame' = [frame EXCEPT ![t] = Some(StatFrame(op))]
    /\ pc' = [pc EXCEPT ![t] = IF op = "addValue" THEN "get" ELSE "run"]
    /\ UNCHANGED <<stats, typed, lastStat, fault, mutex_, hist>>

\* addValueInternal: ObservationPtr existing = getObservation(name); without one
\* the call goes on as setValue(name, value).
SMGet(t) ==
    /\ Alive
    /\ pc[t] = "get"
    /\ LET f == frame[t][1]
       IN IF f.name \in DOMAIN stats
          THEN /\ frame' = [frame EXCEPT ![t] = Some([f EXCEPT !.existing = TRUE])]
               /\ pc' = [pc EXCEPT ![t] = "read"]
          ELSE /\ pc' = [pc EXCEPT ![t] = "get2"]
               /\ UNCHANGED frame
    /\ fault' \in RaceOutcomes(t)
    /\ UNCHANGED <<stats, typed, lastStat, mutex_, hist>>

\* setValueInternal: ObservationPtr stat = getObservation(name); without one a new
\* Observation(name, value) is to be added.
SMGet2(t) ==
    /\ Alive
    /\ pc[t] = "get2"
    /\ LET f == frame[t][1]
       IN IF f.name \in DOMAIN stats
          THEN /\ frame' = [frame EXCEPT ![t] = Some([f EXCEPT !.existing = TRUE])]
               /\ pc' = [pc EXCEPT ![t] = "set"]
          ELSE /\ pc' = [pc EXCEPT ![t] = "insert"]
               /\ UNCHANGED frame
    /\ fault' \in RaceOutcomes(t)
    /\ UNCHANGED <<stats, typed, lastStat, mutex_, hist>>

\* addObservation(stat): StatContext::add refuses a name that is stored, and starts
\* the insert otherwise.
SMAdd(t) ==
    /\ Alive
    /\ pc[t] = "insert"
    /\ IF frame[t][1].name \in DOMAIN stats
       THEN StatReturn(t, "InvalidStatType")
       ELSE /\ pc' = [pc EXCEPT ![t] = "inserting"]
            /\ UNCHANGED <<frame, hist>>
    /\ fault' \in RaceOutcomes(t)
    /\ UNCHANGED <<stats, typed, lastStat, mutex_>>

\* StatContext::add: stats_.insert(make_pair(name, obs)), which keeps the entry of a
\* name that is stored.
SMInsert(t) ==
    /\ Alive
    /\ pc[t] = "inserting"
    /\ LET f == frame[t][1]
       IN stats' = IF f.name \in DOMAIN stats THEN stats
                   ELSE setValueInternal(stats, f.name, "STAT_INTEGER", f.value).stats
    /\ StatReturn(t, "")
    /\ fault' \in RaceOutcomes(t)
    /\ UNCHANGED <<typed, lastStat, mutex_>>

\* stat->setValue(value) on the observation held.
SMSet(t) ==
    /\ Alive
    /\ pc[t] = "set"
    /\ LET f == frame[t][1]
       IN stats' = IF f.gone THEN stats
                   ELSE [stats EXCEPT ![f.name] =
                            ObsSetValue(@, "STAT_INTEGER", f.value).obs]
    /\ StatReturn(t, "")
    /\ UNCHANGED <<typed, lastStat, fault, mutex_>>

\* Observation::addValue: IntegerSample current = getInteger()
SMRead(t) ==
    /\ Alive
    /\ pc[t] = "read"
    /\ LET f == frame[t][1]
       IN frame' = [frame EXCEPT ![t] =
                       Some([f EXCEPT !.current = IF f.gone THEN f.object
                                                   ELSE stats[f.name].value])]
    /\ pc' = [pc EXCEPT ![t] = "write"]
    /\ UNCHANGED <<stats, typed, lastStat, fault, mutex_, hist>>

\* Observation::addValue: setValue(current.first + value)
SMWrite(t) ==
    /\ Alive
    /\ pc[t] = "write"
    /\ LET f == frame[t][1]
       IN stats' = IF f.gone THEN stats
                   ELSE [stats EXCEPT ![f.name] =
                            ObsSetValue(@, "STAT_INTEGER", f.current + f.value).obs]
    /\ StatReturn(t, "")
    /\ UNCHANGED <<typed, lastStat, fault, mutex_>>

\* The frames after the manager dropped the observations named in names: the threads
\* that hold one of them keep the object.
Dropped(fs, names, st) ==
    [u \in DOMAIN fs |->
        IF fs[u] # None /\ fs[u][1].existing /\ ~fs[u][1].gone /\ fs[u][1].name \in names
        THEN Some([fs[u][1] EXCEPT !.gone = TRUE, !.object = st[fs[u][1].name].value])
        ELSE fs[u]]

\* removeAll() and del(name) start to change stats_ (clear, erase), lines 105-111
SMEnter(t) ==
    /\ Alive
    /\ pc[t] = "run"
    /\ frame[t][1].op \in {"removeAll", "del"}
    /\ pc' = [pc EXCEPT ![t] = "running"]
    /\ fault' \in RaceOutcomes(t)
    /\ UNCHANGED <<stats, typed, lastStat, mutex_, frame, hist>>

\* removeAll() and del(name) have changed stats_, resetAll() has gone through it,
\* lines 105-111 and 135-143
SMRun(t) ==
    /\ Alive
    /\ pc[t] \in {"run", "running"}
    /\ LET f == frame[t][1]
           st == CASE f.op = "removeAll" -> removeAll(stats)
                   [] f.op = "del" -> del(stats, f.name).stats
                   [] f.op = "resetAll" -> resetAll(stats)
           fs == Dropped(frame, (DOMAIN stats) \ (DOMAIN st), stats)
       IN /\ pc[t] = IF f.op = "resetAll" THEN "run" ELSE "running"
          /\ stats' = st
          /\ hist' = [hist EXCEPT ![t] = Append(@, [op |-> f.op, exc |-> ""])]
          /\ frame' = [fs EXCEPT ![t] = None]
          /\ pc' = [pc EXCEPT ![t] = "idle"]
    /\ fault' \in RaceOutcomes(t)
    /\ UNCHANGED <<typed, lastStat, mutex_>>

----------------------------------------------------------------------------
(* The lease store: one table of leases under a single writer lock, called  *)
(* by the workers. A mutating call runs in steps: taking the writer lock,   *)
(* the look-up in the address index, the change of the table, and giving    *)
(* the lock back. A read takes the shared lock, which no writer holds then. *)
(* Every mutation stamps the lease with the clock (cltt), and the clock of  *)
(* the store's timestamps has moved on by the next mutation.                *)

NWorkers == 2
MaxLeaseOps == 2
MaxLeaseTime == 6
ValidLifetime == 1
ReclaimBatch == 1
Workers == 1..NWorkers

\* The primary keys: (family, address), for v6 (lease-type, address) as well.
LeaseKeys == {<<4, "V4", 1>>, <<6, "IA_NA", 1>>, <<6, "IA_PD", 1>>}
LeaseChanges == {"renew", "decline"}

Lease(key, client, cltt, state) ==
    [family |-> key[1], ltype |-> key[2], address |-> key[3], client |-> client,
     cltt |-> cltt, valid_lifetime |-> ValidLifetime, state |-> state]

PrimaryKey(l) == <<l.family, l.ltype, l.address>>

\* Derived: expire-time = cltt + valid-lifetime.
ExpireTime(l) == l.cltt + l.valid_lifetime

\* The address index: the rows of the table with this primary key.
Rows(table, key) == {l \in table : PrimaryKey(l) = key}

\* get_by_address: a copy of the lease, or nothing.
get_by_address(table, key) ==
    IF Rows(table, key) = {} THEN None ELSE Some(CHOOSE l \in Rows(table, key) : TRUE)

\* add that does not look the address up.
addUnchecked(table, found, lease) == [table |-> table \cup {lease}, result |-> "Ok"]

\* add: fails when the address is present, and inserts the lease otherwise.
add(table, found, lease) ==
    IF found # {}
    THEN [table |-> table, result |-> "Duplicate"]
    ELSE [table |-> table \cup {lease}, result |-> "Ok"]

\* update that replaces whatever is stored.
updateBlind(table, found, prior, new) ==
    [table |-> (table \ found) \cup {new}, result |-> "Ok"]

\* update: replaces the stored lease by the new one when the stored lease equals
\* the caller's prior snapshot, Conflict otherwise.
update(table, found, prior, new) ==
    IF found = {prior}
    THEN [table |-> (table \ found) \cup {new}, result |-> "Ok"]
    ELSE [table |-> table, result |-> "Conflict"]

\* delete_by_address
delete_by_address(table, found) ==
    [table |-> table \ found, result |-> IF found = {} THEN "NotFound" ELSE "Ok"]

\* expired_leases(before, limit): at most limit leases whose expire-time is before
\* the given time and that are not reclaimed yet, in ascending expire-time order.
Expired(table, before) ==
    {l \in table : ExpireTime(l) < before /\ l.state \in {"DEFAULT", "RELEASED"}}
expired_leases(table, before, limit) ==
    CHOOSE S \in SUBSET Expired(table, before) :
        /\ Cardinality(S) = IF Cardinality(Expired(table, before)) < limit
                            THEN Cardinality(Expired(table, before)) ELSE limit
        /\ \A a \in S, b \in Expired(table, before) \ S : ExpireTime(a) <= ExpireTime(b)

\* Expiry reclamation: the batch moves to EXPIRED_RECLAIMED.
reclaim(table, found) ==
    [table |-> (table \ found) \cup {[l EXCEPT !.state = "EXPIRED_RECLAIMED"] : l \in found},
     result |-> "Ok"]

\* The lease an update writes: the snapshot renewed, declined or released, stamped
\* with the time of the mutation.
Changed(prior, change, t) ==
    [prior EXCEPT !.cltt = t,
                  !.state = CASE change = "renew" -> "DEFAULT"
                              [] change = "decline" -> "DECLINED"
                              [] OTHER -> "RELEASED"]

\* The writer lock is free.
CanWrite(w) == w = 0

LeaseFrame(op, key, prior, change) ==
    [op |-> op, key |-> key, prior |-> prior, change |-> change, found |-> {},
     result |-> ""]

\* The store after start-up: empty, or with one lease read from the lease file.
InitLease ==
    /\ lease_table \in {{}, {Lease(<<4, "V4", 1>>, 1, 0, "DEFAULT")}}
    /\ writer = 0
    /\ ltime = 1
    /\ lpc = [w \in Workers |-> "idle"]
    /\ lframe = [w \in Workers |-> None]
    /\ lsnap = [w \in Workers |-> None]
    /\ lhist = [w \in Workers |-> <<>>]

LCanCall(w) == lpc[w] = "idle" /\ Len(lhist[w]) < MaxLeaseOps

LEnter(w, f) ==
    /\ LCanCall(w)
    /\ lframe' = [lframe EXCEPT ![w] = Some(f)]
    /\ lpc' = [lpc EXCEPT ![w] = "lock"]
    /\ UNCHANGED <<lease_table, writer, ltime, lsnap, lhist>>

LCallAdd(w, key) == LEnter(w, LeaseFrame("add", key, None, ""))

LCallUpdate(w, change) ==
    /\ lsnap[w] # None
    /\ LEnter(w, LeaseFrame("update", PrimaryKey(lsnap[w][1]), lsnap[w], change))

LCallDelete(w, key) == LEnter(w, LeaseFrame("delete_by_address", key, None, ""))

LCallReclaim(w) == LEnter(w, LeaseFrame("reclaim", None, None, ""))

\* get_by_address under the shared lock: the worker keeps the snapshot.
LGet(w, key) ==
    /\ LCanCall(w)
    /\ CanWrite(writer)
    /\ lsnap' = [lsnap EXCEPT ![w] = get_by_address(lease_table, key)]
    /\ lhist' = [lhist EXCEPT ![w] =
                    Append(@, [op |-> "get_by_address", key |-> key, prior |-> None,
                               change |-> "", found |-> Rows(lease_table, key),
                               result |-> "Ok"])]
    /\ UNCHANGED <<lease_table, writer, ltime, lpc, lframe>>

LLock(w) ==
    /\ lpc[w] = "lock"
    /\ CanWrite(writer)
    /\ writer' = w
    /\ lpc' = [lpc EXCEPT ![w] = "find"]
    /\ UNCHANGED <<lease_table, ltime, lframe, lsnap, lhist>>

LFind(w) ==
    /\ lpc[w] = "find"
    /\ LET f == lframe[w][1]
           found == IF f.op = "reclaim"
                    THEN expired_leases(lease_table, ltime, ReclaimBatch)
                    ELSE Rows(lease_table, f.key)
       IN lframe' = [lframe EXCEPT ![w] = Some([f EXCEPT !.found = found])]
    /\ lpc' = [lpc EXCEPT ![w] = "apply"]
    /\ UNCHANGED <<lease_table, writer, ltime, lsnap, lhist>>

\* What the call does to the table with what its look-up found.
LeaseApply(table, f, w, t) ==
    CASE f.op = "add" -> add(table, f.found, Lease(f.key, w, t, "DEFAULT"))
      [] f.op = "update" ->
            update(table, f.found, f.prior[1], Changed(f.prior[1], f.change, t))
      [] f.op = "delete_by_address" -> delete_by_address(table, f.found)
      [] OTHER -> reclaim(table, f.found)

LApply(w) ==
    /\ lpc[w] = "apply"
    /\ ltime < MaxLeaseTime
    /\ LET f == lframe[w][1]
           r == LeaseApply(lease_table, f, w, ltime)
       IN /\ lease_table' = r.table
          /\ lframe' = [lframe EXCEPT ![w] = Some([f EXCEPT !.result = r.result])]
          /\ ltime' = IF r.table # lease_table THEN ltime + 1 ELSE ltime
    /\ lpc' = [lpc EXCEPT ![w] = "unlock"]
    /\ UNCHANGED <<writer, lsnap, lhist>>

LUnlock(w) ==
    /\ lpc[w] = "unlock"
    /\ writer' = 0
    /\ lhist' = [lhist EXCEPT ![w] = Append(@, lframe[w][1])]
    /\ lframe' = [lframe EXCEPT ![w] = None]
    /\ lpc' = [lpc EXCEPT ![w] = "idle"]
    /\ UNCHANGED <<lease_table, ltime, lsnap>>

----------------------------------------------------------------------------
(* The transaction engine at the lease4_offer hook point. A DISCOVER that   *)
(* has its lease allocated is handed to the hook, which returns CONTINUE,   *)
(* SKIP, DROP or PARK. PARK moves the transaction to the parking lot, keyed *)
(* by xid, unless the lot is full; a parked transaction leaves the lot when *)
(* the hook resumes or drops it, when its timeout ends it, or at shutdown.  *)

NTransactions == 3
ParkedPacketLimit == 2
Xids == 1..NTransactions
CalloutStatuses == {"CONTINUE", "SKIP", "DROP", "PARK"}

\* A transaction: its state, what the lease4_offer callout returned for it, and what
\* took it out of the parking lot.
Transaction(state, hook) == [state |-> state, hook |-> hook, unparked |-> ""]

InitParking ==
    /\ tx = [x \in Xids |-> Transaction("RECEIVED", "")]
    /\ parking_lot = {}
    /\ parking_lot_full = 0
    /\ running = TRUE

\* A parking lot that takes every transaction.
parkUnbounded(lot, xid) == [lot |-> lot \cup {xid}, parked |-> TRUE]

\* PARK: the lot takes the transaction unless it is at its capacity.
park(lot, xid) ==
    IF Cardinality(lot) >= ParkedPacketLimit
    THEN [lot |-> lot, parked |-> FALSE]
    ELSE [lot |-> lot \cup {xid}, parked |-> TRUE]

\* RECEIVED to ALLOCATED: the DISCOVER is parsed, classified, its subnet selected and
\* its lease allocated; the offer is built and lease4_offer is next.
TxAllocate(x) ==
    /\ running
    /\ tx[x].state = "RECEIVED"
    /\ tx' = [tx EXCEPT ![x].state = "ALLOCATED"]
    /\ UNCHANGED <<parking_lot, parking_lot_full, running>>

\* The lease4_offer callout returns.
TxLease4Offer(x, status) ==
    /\ running
    /\ tx[x].state = "ALLOCATED"
    /\ LET p == park(parking_lot, x)
       IN CASE status \in {"CONTINUE", "SKIP"} ->
                 /\ tx' = [tx EXCEPT ![x] = Transaction("SENT", status)]
                 /\ UNCHANGED <<parking_lot, parking_lot_full>>
            [] status = "DROP" ->
                 /\ tx' = [tx EXCEPT ![x] = Transaction("DROPPED", status)]
                 /\ UNCHANGED <<parking_lot, parking_lot_full>>
            [] OTHER ->
                 /\ tx' = [tx EXCEPT ![x] =
                             Transaction(IF p.parked THEN "PARKED" ELSE "DROPPED", status)]
                 /\ parking_lot' = p.lot
                 /\ parking_lot_full' = IF p.parked THEN parking_lot_full
                                        ELSE parking_lot_full + 1
    /\ UNCHANGED running

\* A parked transaction leaves the lot.
Unpark(x, state, by) ==
    /\ x \in parking_lot
    /\ tx' = [tx EXCEPT ![x].state = state, ![x].unparked = by]
    /\ parking_lot' = parking_lot \ {x}
    /\ UNCHANGED <<parking_lot_full, running>>

\* The hook calls resume: the transaction goes on and its response is sent.
TxResume(x) == running /\ Unpark(x, "SENT", "resume")

\* The hook calls drop.
TxDrop(x) == running /\ Unpark(x, "DROPPED", "drop")

\* The timeout of a parked transaction: the engine resumes it with DROP.
TxTimeout(x) == running /\ Unpark(x, "DROPPED", "timeout")

\* Shutdown drops the transactions that are still parked.
Shutdown ==
    /\ running
    /\ running' = FALSE
    /\ tx' = [x \in Xids |-> IF x \in parking_lot
                             THEN [tx[x] EXCEPT !.state = "DROPPED", !.unparked = "shutdown"]
                             ELSE tx[x]]
    /\ parking_lot' = {}
    /\ UNCHANGED parking_lot_full

----------------------------------------------------------------------------
(* The allocation engine on one v4 subnet with one pool, over the lease     *)
(* store's table: DISCOVER allocates an address and writes the lease,       *)
(* DECLINE by the lease's holder marks it DECLINED, declined-lease recovery *)
(* and expiry reclamation run from their timers. Each runs as one step      *)
(* under the store's lock.                                                  *)

PoolSize == 2
NClients == 3
DeclineProbation == 2
MaxAllocTime == 3
Pool == 1..PoolSize
Clients == 1..NClients
RequestedAddresses == {0} \cup Pool

\* The reservations of the configuration: the last client has the pool's first
\* address reserved. 0 is no reservation.
Reservation(c) == IF c = NClients THEN 1 ELSE 0

V4Key(a) == <<4, "V4", a>>

\* No lease for the address.
Free(table, a) == Rows(table, V4Key(a)) = {}

HeldBy(table, a, c) ==
    \E l \in Rows(table, V4Key(a)) : l.client = c /\ l.state = "DEFAULT"

\* The clients of the DECLINED entries. A DECLINED lease has no valid client binding
\* (client 0), which matches nobody.
DeclinedClients(table) ==
    {l.client : l \in {x \in table : x.state = "DECLINED" /\ x.client # 0}}

\* Step 4's test of a pool address: free or EXPIRED_RECLAIMED, and its prior holder
\* matches no DECLINED entry.
Candidate(table, a) ==
    \/ Free(table, a)
    \/ \E l \in Rows(table, V4Key(a)) :
          l.state = "EXPIRED_RECLAIMED" /\ l.client \notin DeclinedClients(table)

Lowest(S) == CHOOSE a \in S : \A b \in S : a <= b

\* The allocation algorithm; 0 is NoAddressAvailable.
Allocate(table, c, requested) ==
    LET own == {a \in Pool : HeldBy(table, a, c)}
        candidates == {a \in Pool : Candidate(table, a)}
    IN IF Reservation(c) # 0
          /\ (Free(table, Reservation(c)) \/ HeldBy(table, Reservation(c), c))
       THEN Reservation(c)
       ELSE IF own # {} THEN Lowest(own)
       ELSE IF requested # 0 /\ requested \in Pool /\ Free(table, requested)
       THEN requested
       ELSE IF candidates # {} THEN Lowest(candidates)
       ELSE 0

\* The store's write of the allocated lease: add for a new address, atomic replace
\* of the stored lease otherwise.
WriteLease(table, lease) ==
    LET found == Rows(table, PrimaryKey(lease))
    IN IF found = {}
       THEN add(table, found, lease).table
       ELSE update(table, found, CHOOSE l \in found : TRUE, lease).table

\* Recovery that does not wait for the probation.
recoverDeclinedAtOnce(table, t) ==
    {IF l.state = "DECLINED" THEN [l EXCEPT !.state = "EXPIRED_RECLAIMED"] ELSE l :
        l \in table}

\* Declined-lease recovery: the DECLINED leases whose decline-probation has elapsed
\* move to EXPIRED_RECLAIMED.
recoverDeclined(table, t) ==
    {IF l.state = "DECLINED" /\ t - l.cltt >= DeclineProbation
     THEN [l EXCEPT !.state = "EXPIRED_RECLAIMED"] ELSE l : l \in table}

\* The engine's answer to a query: the client, the requested address of its query
\* (0: none), the message sent ("" for none) and its address; the serial number tells
\* two equal answers in a row apart.
Response(client, requested, msg, address) ==
    [client |-> client, requested |-> requested, msg |-> msg, address |-> address,
     serial |-> IF response = None THEN 0 ELSE 1 - response[1].serial]

InitAlloc ==
    /\ lease_table = {}
    /\ writer = 0
    /\ ltime = 0
    /\ lpc = None /\ lframe = None /\ lsnap = None /\ lhist = None
    /\ response = None
    /\ declined_at = [a \in Pool |-> [at |-> -1, by |-> 0]]

\* DHCPDISCOVER: DHCPOFFER with the allocated address, or DHCPNAK without one.
Discover(c, requested) ==
    LET a == Allocate(lease_table, c, requested)
    IN /\ response' = Some(Response(c, requested, IF a = 0 THEN "NAK" ELSE "OFFER", a))
       /\ lease_table' = IF a = 0 THEN lease_table
                         ELSE WriteLease(lease_table, Lease(V4Key(a), c, ltime, "DEFAULT"))
       /\ UNCHANGED <<ltime, declined_at>>

\* DHCPDECLINE: the lease of the client is marked DECLINED and loses its binding;
\* a lease of somebody else, or none, is logged and left.
Decline(c, a) ==
    /\ response' = Some(Response(c, a, "", a))
    /\ IF HeldBy(lease_table, a, c)
       THEN /\ lease_table' = WriteLease(lease_table, Lease(V4Key(a), 0, ltime, "DECLINED"))
            /\ declined_at' = [declined_at EXCEPT ![a] = [at |-> ltime, by |-> c]]
       ELSE UNCHANGED <<lease_table, declined_at>>
    /\ UNCHANGED ltime

RecoverDeclined ==
    /\ lease_table' = recoverDeclined(lease_table, ltime)
    /\ lease_table' # lease_table
    /\ UNCHANGED <<ltime, response, declined_at>>

ReclaimExpired ==
    /\ lease_table' =
          reclaim(lease_table, expired_leases(lease_table, ltime, ReclaimBatch)).table
    /\ lease_table' # lease_table
    /\ UNCHANGED <<ltime, response, declined_at>>

AllocTick ==
    /\ ltime < MaxAllocTime
    /\ ltime' = ltime + 1
    /\ UNCHANGED <<lease_table, response, declined_at>>

----------------------------------------------------------------------------
(* HostDataSourceFactory (lib/dhcpsrv/host_data_source_factory.cc). map_ is  *)
(* the registry of factories by database type, sources a HostDataSourceList; *)
(* a pointer is None when null. An access string is the sequence of its      *)
(* name=value tokens, a token being the pair of the name and the value.      *)

MaxSources == 2
DbTypes == {"mysql", "postgresql"}
\* What a registered factory does when called: it makes a source, returns null, or
\* throws because the database cannot be opened.
Factories == {"make", "null", "throw"}
AccessStrings ==
    { <<>>,
      << <<"host", "h">> >>,
      << <<"type", "mysql">> >>,
      << <<"type", "mysql">>, <<"host", "h">> >>,
      << <<"type", "postgresql">> >> }

\* DatabaseConnection::parse(dbaccess): the map of the tokens' names to their values;
\* the first token of a name is the one kept.
parse(dbaccess) ==
    [n \in {dbaccess[i][1] : i \in 1..Len(dbaccess)} |->
        dbaccess[CHOOSE i \in 1..Len(dbaccess) :
                    /\ dbaccess[i][1] = n
                    /\ \A j \in 1..(i - 1) : dbaccess[j][1] # n][2]]

\* A host data source a factory made from the parameters: getType(), getParameters()
\* and isUnusable().
HostDataSource(parameters) ==
    [type |-> parameters["type"], parameters |-> parameters, unusable |-> FALSE]

\* index->second(parameters): the pointer the factory returns, or its exception.
CallFactory(factory, parameters) ==
    CASE factory = "make" -> [exc |-> "", ptr |-> Some(HostDataSource(parameters))]
      [] factory = "null" -> [exc |-> "", ptr |-> None]
      [] OTHER -> [exc |-> "DbOpenError", ptr |-> None]

\* add that leaves the null pointer it pushed on the list.
addSourceNoPop(srcs, registry, dbaccess) ==
    LET parameters == parse(dbaccess)
    IN IF "type" \notin DOMAIN parameters
       THEN [exc |-> "InvalidParameter", sources |-> srcs]
       ELSE IF parameters["type"] \notin DOMAIN registry
       THEN [exc |-> "InvalidType", sources |-> srcs]
       ELSE LET made == CallFactory(registry[parameters["type"]], parameters)
            IN IF made.exc # "" THEN [exc |-> made.exc, sources |-> srcs]
               ELSE IF made.ptr = None
               THEN [exc |-> "Unexpected", sources |-> Append(srcs, made.ptr)]
               ELSE [exc |-> "", sources |-> Append(srcs, made.ptr)]

\* HostDataSourceFactory::add(sources, dbaccess): the exception thrown ("" for none)
\* and the list afterwards.
addSource(srcs, registry, dbaccess) ==
    LET parameters == parse(dbaccess)
    IN IF "type" \notin DOMAIN parameters
       THEN [exc |-> "InvalidParameter", sources |-> srcs]
       ELSE IF parameters["type"] \notin DOMAIN registry
       THEN [exc |-> "InvalidType", sources |-> srcs]
       ELSE LET made == CallFactory(registry[parameters["type"]], parameters)
            IN IF made.exc # "" THEN [exc |-> made.exc, sources |-> srcs]
               ELSE LET pushed == Append(srcs, made.ptr)
                    IN IF pushed[Len(pushed)] = None
                       THEN [exc |-> "Unexpected",
                             sources |-> SubSeq(pushed, 1, Len(pushed) - 1)]
                       ELSE [exc |-> "", sources |-> pushed]

\* sources.erase(it)
EraseSource(srcs, it) == SubSeq(srcs, 1, it - 1) \o SubSeq(srcs, it + 1, Len(srcs))

\* HostDataSourceFactory::del(sources, db_type), the loop from position it on.
RECURSIVE delByType(_, _, _)
delByType(srcs, db_type, it) ==
    IF it > Len(srcs) THEN [ret |-> FALSE, sources |-> srcs]
    ELSE IF srcs[it][1].type # db_type THEN delByType(srcs, db_type, it + 1)
    ELSE [ret |-> TRUE, sources |-> EraseSource(srcs, it)]

\* del with if_unusable that does not ask the source whether it is unusable.
RECURSIVE delByAccessAnySource(_, _, _, _, _, _)
delByAccessAnySource(srcs, db_type, parameters, if_unusable, deleted, it) ==
    IF it > Len(srcs) THEN [ret |-> deleted, sources |-> srcs]
    ELSE IF srcs[it][1].type # db_type \/ srcs[it][1].parameters # parameters
    THEN delByAccessAnySource(srcs, db_type, parameters, if_unusable, deleted, it + 1)
    ELSE [ret |-> TRUE, sources |-> EraseSource(srcs, it)]

\* HostDataSourceFactory::del(sources, db_type, dbaccess, if_unusable), the loop from
\* position it on with the value of deleted so far.
RECURSIVE delByAccess(_, _, _, _, _, _)
delByAccess(srcs, db_type, parameters, if_unusable, deleted, it) ==
    IF it > Len(srcs) THEN [ret |-> deleted, sources |-> srcs]
    ELSE IF srcs[it][1].type # db_type \/ srcs[it][1].parameters # parameters
    THEN delByAccess(srcs, db_type, parameters, if_unusable, deleted, it + 1)
    ELSE IF if_unusable /\ ~srcs[it][1].unusable
    THEN delByAccess(srcs, db_type, parameters, if_unusable, FALSE, it + 1)
    ELSE [ret |-> TRUE, sources |-> EraseSource(srcs, it)]

\* registerFactory that replaces the factory of a registered type.
registerFactoryAnyway(registry, db_type, factory) ==
    [ret |-> TRUE,
     map |-> [t \in DOMAIN registry \cup {db_type} |->
                 IF t = db_type THEN factory ELSE registry[t]]]

\* HostDataSourceFactory::registerFactory(db_type, factory)
registerFactory(registry, db_type, factory) ==
    IF db_type \in DOMAIN registry
    THEN [ret |-> FALSE, map |-> registry]
    ELSE [ret |-> TRUE,
          map |-> [t \in DOMAIN registry \cup {db_type} |->
                      IF t = db_type THEN factory ELSE registry[t]]]

\* HostDataSourceFactory::deregisterFactory(db_type)
deregisterFactory(registry, db_type) ==
    IF db_type \in DOMAIN registry
    THEN [ret |-> TRUE, map |-> [t \in DOMAIN registry \ {db_type} |-> registry[t]]]
    ELSE [ret |-> FALSE, map |-> registry]

\* HostDataSourceFactory::registeredFactory(db_type)
registeredFactory(registry, db_type) == db_type \in DOMAIN registry

HostDone(op, db_type, dbaccess, if_unusable, ret, exc) ==
    lastHost' = [op |-> op, db_type |-> db_type, dbaccess |-> dbaccess,
                 if_unusable |-> if_unusable, ret |-> ret, exc |-> exc]

\* No factory is registered (the backends are not compiled in), the list is empty.
InitHost ==
    /\ map_ = << >>
    /\ sources = <<>>
    /\ lastHost = [op |-> "start", db_type |-> "", dbaccess |-> <<>>,
                   if_unusable |-> FALSE, ret |-> FALSE, exc |-> ""]

HostRegisterFactory(db_type, factory) ==
    /\ LET r == registerFactory(map_, db_type, factory)
       IN /\ map_' = r.map
          /\ HostDone("registerFactory", db_type, <<>>, FALSE, r.ret, "")
    /\ UNCHANGED sources

HostDeregisterFactory(db_type) ==
    /\ LET r == deregisterFactory(map_, db_type)
       IN /\ map_' = r.map
          /\ HostDone("deregisterFactory", db_type, <<>>, FALSE, r.ret, "")
    /\ UNCHANGED sources

HostRegisteredFactory(db_type) ==
    /\ HostDone("registeredFactory", db_type, <<>>, FALSE,
                registeredFactory(map_, db_type), "")
    /\ UNCHANGED <<map_, sources>>

HostAdd(dbaccess) ==
    /\ Len(sources) < MaxSources
    /\ LET r == addSource(sources, map_, dbaccess)
       IN /\ sources' = r.sources
          /\ HostDone("add", "", dbaccess, FALSE, FALSE, r.exc)
    /\ UNCHANGED map_

HostDel(db_type) ==
    /\ LET r == delByType(sources, db_type, 1)
       IN /\ sources' = r.sources
          /\ HostDone("del", db_type, <<>>, FALSE, r.ret, "")
    /\ UNCHANGED map_

HostDelAccess(db_type, dbaccess, if_unusable) ==
    /\ LET r == delByAccess(sources, db_type, parse(dbaccess), if_unusable, if_unusable, 1)
       IN /\ sources' = r.sources
          /\ HostDone("delAccess", db_type, dbaccess, if_unusable, r.ret, "")
    /\ UNCHANGED map_

\* A source loses its connection: isUnusable() is true from now on.
SourceUnusable(it) ==
    /\ it \in 1..Len(sources)
    /\ sources[it] # None
    /\ ~sources[it][1].unusable
    /\ sources' = [sources EXCEPT ![it] = Some([@[1] EXCEPT !.unusable = TRUE])]
    /\ HostDone("unusable", "", <<>>, FALSE, FALSE, "")
    /\ UNCHANGED map_

----------------------------------------------------------------------------
(* Specifications                                                          *)

\* DurationKey comparison on every pair of keys.
notKey == <<intvars, durvars, heapvars, storevars, mtvars, statvars, srvvars, racevars>>
NextKey == Compare /\ UNCHANGED notKey
InitSpecKey ==
    InitKey /\ IdleInterval /\ IdleDuration /\ IdleHeap /\ IdleStore /\ IdleMT /\ IdleStats
        /\ IdleSrv /\ IdleRace
SpecKey == InitSpecKey /\ [][NextKey]_vars

\* DurationKey constructions with every triple of family and message types.
NextKeyCtor ==
    \E f \in CtorFamilies, q \in MessageTypes, r \in MessageTypes :
        NewDurationKey(f, q, r) /\ UNCHANGED notKey
InitSpecKeyCtor ==
    InitKeyCtor /\ IdleInterval /\ IdleDuration /\ IdleHeap /\ IdleStore /\ IdleMT /\ IdleStats
        /\ IdleSrv /\ IdleRace
SpecKeyCtor == InitSpecKeyCtor /\ [][NextKeyCtor]_vars

\* One DurationDataInterval under addDuration and getAverageDuration.
notInterval == <<keyvars, durvars, heapvars, storevars, mtvars, statvars, srvvars, racevars>>
NextInterval ==
    \/ \E d \in Samples : IntervalAddDuration(d) /\ UNCHANGED notInterval
    \/ IntervalGetAverage /\ UNCHANGED notInterval
InitSpecInterval ==
    IdleKey /\ InitInterval /\ IdleDuration /\ IdleHeap /\ IdleStore /\ IdleMT /\ IdleStats
        /\ IdleSrv /\ IdleRace
SpecInterval == InitSpecInterval /\ [][NextInterval]_vars

\* One MonitoredDuration under addSample and clear while the clock advances.
notDuration == <<keyvars, intvars, storevars, mtvars, statvars, srvvars, racevars>>
NextDuration ==
    \/ Tick /\ UNCHANGED <<durvars, notDuration>>
    \/ \E s \in Samples : DurAddSample(s) /\ UNCHANGED notDuration
    \/ DurClear /\ UNCHANGED notDuration
InitSpecDuration ==
    IdleKey /\ IdleInterval /\ InitDuration /\ IdleStore /\ IdleMT /\ IdleStats
        /\ IdleSrv /\ IdleRace
SpecDuration == InitSpecDuration /\ [][NextDuration]_vars

\* One MonitoredDurationStore and a caller holding the objects it returns.
notStore == <<keyvars, intvars, durvars, mtvars, statvars, srvvars, racevars>>
NextStore ==
    \/ StoreTick /\ UNCHANGED notStore
    \/ \E key \in FamilyKeyArgs, s \in StoreSamples, h \in Handles :
          StoreAddDuration(key, s, h) /\ UNCHANGED notStore
    \/ \E key \in FamilyKeyArgs, h \in Handles : StoreGetDuration(key, h) /\ UNCHANGED notStore
    \/ \E h \in Handles : StoreUpdateDuration(h) /\ UNCHANGED notStore
    \/ \E key \in FamilyKeyArgs : StoreDeleteDuration(key) /\ UNCHANGED notStore
    \/ \E i \in 0..Cardinality(StoreKeys), h \in Handles : StoreGetAll(i, h) /\ UNCHANGED notStore
    \/ StoreClear /\ UNCHANGED notStore
    \/ \E h \in Handles, s \in HeldSamples : HeldAddSample(h, s) /\ UNCHANGED notStore
    \/ \E h \in Handles : HeldClear(h) /\ UNCHANGED notStore
InitSpecStore ==
    IdleKey /\ IdleInterval /\ IdleDuration /\ InitStore /\ IdleMT /\ IdleStats
        /\ IdleSrv /\ IdleRace
SpecStore == InitSpecStore /\ [][NextStore]_vars

\* The store's calls that check their arguments, and the constructors.
NextStoreArgs ==
    \/ \E key \in KeyArgs, s \in FirstSamples, h \in Handles :
          StoreAddDuration(key, s, h) /\ UNCHANGED notStore
    \/ \E key \in KeyArgs, h \in Handles : StoreGetDuration(key, h) /\ UNCHANGED notStore
    \/ \E h \in Handles : StoreUpdateDuration(h) /\ UNCHANGED notStore
    \/ \E key \in KeyArgs : StoreDeleteDuration(key) /\ UNCHANGED notStore
    \/ \E f \in KeyFamilies, d \in CtorIntervals : NewStore(f, d) /\ UNCHANGED notStore
    \/ \E k \in StoreKeys, d \in CtorIntervals :
          NewDurationFromKey(k, d) /\ UNCHANGED notStore
    \/ \E r \in CtorResponses, d \in CtorIntervals :
          NewDurationFromFields(StoreFamily, DHCPDISCOVER, r, d) /\ UNCHANGED notStore
SpecStoreArgs == InitSpecStore /\ [][NextStoreArgs]_vars

\* One MonitoredDurationStore holding keys that differ in more than one field: the
\* calls that reach the index, on durations without samples.
NextStoreIndex ==
    \/ \E key \in IndexKeyArgs, s \in IndexSamples, h \in Handles :
          StoreAddDuration(key, s, h) /\ UNCHANGED notStore
    \/ \E key \in IndexKeyArgs, h \in Handles : StoreGetDuration(key, h) /\ UNCHANGED notStore
    \/ \E h \in Handles : StoreUpdateDuration(h) /\ UNCHANGED notStore
    \/ \E key \in IndexKeyArgs : StoreDeleteDuration(key) /\ UNCHANGED notStore
    \/ \E i \in 0..Cardinality(IndexKeys), h \in Handles :
          StoreGetAll(i, h) /\ UNCHANGED notStore
SpecStoreIndex == InitSpecStore /\ [][NextStoreIndex]_vars

\* One MonitoredDurationStore called by several threads.
notMT == <<keyvars, intvars, durvars, statvars, srvvars, racevars>>
NextMT ==
    \/ \E t \in Threads, key \in MTKeyArgs, s \in IndexSamples :
          MTCallAdd(t, key, s) /\ UNCHANGED notMT
    \/ \E t \in Threads, key \in MTLookupKeyArgs : MTCallGet(t, key) /\ UNCHANGED notMT
    \/ \E t \in Threads : MTCallUpdate(t) /\ UNCHANGED notMT
    \/ \E t \in Threads, key \in MTLookupKeyArgs : MTCallDelete(t, key) /\ UNCHANGED notMT
    \/ \E t \in Threads : MTCallGetAll(t) /\ UNCHANGED notMT
    \/ \E t \in Threads : MTLock(t) /\ UNCHANGED notMT
    \/ \E t \in Threads : MTFind(t) /\ UNCHANGED notMT
    \/ \E t \in Threads : MTApply(t) /\ UNCHANGED notMT
    \/ \E t \in Threads : MTUnlock(t) /\ UNCHANGED notMT
InitSpecStoreMT ==
    IdleKey /\ IdleInterval /\ IdleDuration /\ InitMT /\ IdleStats /\ IdleSrv /\ IdleRace
SpecStoreMT == InitSpecStoreMT /\ [][NextMT]_vars

\* Two threads sampling one duration of the store.
notSampling == <<keyvars, intvars, mond, statvars, srvvars, racevars>>
NextSampling ==
    \/ SampleTick /\ UNCHANGED notSampling
    \/ \E t \in Threads : SampleGet(t) /\ UNCHANGED notSampling
    \/ \E t \in Threads, s \in RacedSamples : SampleAdd(t, s) /\ UNCHANGED notSampling
    \/ \E t \in Threads : SampleLoad(t) /\ UNCHANGED notSampling
    \/ \E t \in Threads : SampleStore(t) /\ UNCHANGED notSampling
    \/ \E t \in Threads : SampleUpdate(t) /\ UNCHANGED notSampling
    \/ \E t \in Threads : MTLock(t) /\ UNCHANGED <<notSampling, calls>>
    \/ \E t \in Threads : MTFind(t) /\ UNCHANGED <<notSampling, calls>>
    \/ \E t \in Threads : MTApply(t) /\ UNCHANGED <<notSampling, calls>>
    \/ \E t \in Threads : MTUnlock(t) /\ UNCHANGED <<notSampling, calls>>
InitSpecSampling ==
    IdleKey /\ IdleInterval /\ mond = None /\ InitSampling /\ IdleStats /\ IdleSrv /\ IdleRace
SpecSampling == InitSpecSampling /\ [][NextSampling]_vars

\* The statistics manager.
notStats == <<keyvars, intvars, durvars, heapvars, storevars, mtvars, srvvars, racevars>>
NextStats ==
    \/ \E n \in StatNames, ty \in StatTypes :
          \E v \in StatValues(ty) : StatsSetValue(n, ty, v) /\ UNCHANGED notStats
    \/ \E n \in StatNames, ty \in StatTypes :
          \E v \in StatValues(ty) : StatsAddValue(n, ty, v) /\ UNCHANGED notStats
    \/ \E n \in StatNames : StatsReset(n) /\ UNCHANGED notStats
    \/ \E n \in StatNames : StatsDel(n) /\ UNCHANGED notStats
    \/ StatsRemoveAll /\ UNCHANGED notStats
    \/ StatsResetAll /\ UNCHANGED notStats
    \/ \E n \in StatNames, d \in SampleAges :
          StatsSetMaxSampleAge(n, d) /\ UNCHANGED notStats
    \/ \E n \in StatNames, c \in SampleCounts :
          StatsSetMaxSampleCount(n, c) /\ UNCHANGED notStats
    \/ \E p \in CommandParams : StatsStatisticGet(p) /\ UNCHANGED notStats
    \/ \E p \in CommandParams : StatsStatisticReset(p) /\ UNCHANGED notStats
    \/ \E p \in CommandParams : StatsStatisticRemove(p) /\ UNCHANGED notStats
    \/ \E p \in CommandParams : StatsStatisticRemoveAll(p) /\ UNCHANGED notStats
    \/ \E p \in CommandParams : StatsStatisticGetAll(p) /\ UNCHANGED notStats
    \/ \E p \in CommandParams : StatsStatisticResetAll(p) /\ UNCHANGED notStats
InitSpecStats ==
    IdleKey /\ IdleInterval /\ IdleDuration /\ IdleHeap /\ IdleStore /\ IdleMT /\ InitStats
        /\ IdleSrv /\ IdleRace
SpecStats == InitSpecStats /\ [][NextStats]_vars

\* The statistics manager called by several threads.
notStatsMT == <<keyvars, intvars, durvars, heapvars, storevars, srvvars>>
NextStatsMT ==
    \/ \E t \in Threads, op \in SharedOps : SMCall(t, op) /\ UNCHANGED notStatsMT
    \/ \E t \in Threads : SMGet(t) /\ UNCHANGED notStatsMT
    \/ \E t \in Threads : SMGet2(t) /\ UNCHANGED notStatsMT
    \/ \E t \in Threads : SMAdd(t) /\ UNCHANGED notStatsMT
    \/ \E t \in Threads : SMInsert(t) /\ UNCHANGED notStatsMT
    \/ \E t \in Threads : SMSet(t) /\ UNCHANGED notStatsMT
    \/ \E t \in Threads : SMRead(t) /\ UNCHANGED notStatsMT
    \/ \E t \in Threads : SMWrite(t) /\ UNCHANGED notStatsMT
    \/ \E t \in Threads : SMEnter(t) /\ UNCHANGED notStatsMT
    \/ \E t \in Threads : SMRun(t) /\ UNCHANGED notStatsMT
InitSpecStatsMT ==
    IdleKey /\ IdleInterval /\ IdleDuration /\ IdleHeap /\ IdleStore /\ InitStatsMT
        /\ IdleSrv
SpecStatsMT == InitSpecStatsMT /\ [][NextStatsMT]_vars

\* The threads' calls on one key, every thread that can take a step taking it in the
\* end: a running thread is scheduled, and a thread waiting for the mutex gets it once
\* the mutex stays free.
FairKeyArgs == {Some(TheKey)}
NextMTFair ==
    \/ \E t \in Threads, key \in FairKeyArgs, s \in MTSamples :
          MTCallAdd(t, key, s) /\ UNCHANGED notMT
    \/ \E t \in Threads, key \in FairKeyArgs : MTCallGet(t, key) /\ UNCHANGED notMT
    \/ \E t \in Threads : MTCallUpdate(t) /\ UNCHANGED notMT
    \/ \E t \in Threads, key \in FairKeyArgs : MTCallDelete(t, key) /\ UNCHANGED notMT
    \/ \E t \in Threads : MTCallGetAll(t) /\ UNCHANGED notMT
    \/ \E t \in Threads : MTLock(t) /\ UNCHANGED notMT
    \/ \E t \in Threads : MTFind(t) /\ UNCHANGED notMT
    \/ \E t \in Threads : MTApply(t) /\ UNCHANGED notMT
    \/ \E t \in Threads : MTUnlock(t) /\ UNCHANGED notMT
FairMT ==
    \A t \in Threads :
        /\ WF_vars(MTLock(t) /\ UNCHANGED notMT)
        /\ WF_vars(MTFind(t) /\ UNCHANGED notMT)
        /\ WF_vars(MTApply(t) /\ UNCHANGED notMT)
        /\ WF_vars(MTUnlock(t) /\ UNCHANGED notMT)
SpecStoreMTFair == InitSpecStoreMT /\ [][NextMTFair]_vars /\ FairMT

\* The lease store called by the workers.
notLease ==
    <<keyvars, intvars, durvars, heapvars, storevars, mtvars, statvars, parkvars, allocvars,
      libvars, racevars>>
NextLease ==
    \/ \E w \in Workers, key \in LeaseKeys : LCallAdd(w, key) /\ UNCHANGED notLease
    \/ \E w \in Workers, key \in LeaseKeys : LGet(w, key) /\ UNCHANGED notLease
    \/ \E w \in Workers, c \in LeaseChanges : LCallUpdate(w, c) /\ UNCHANGED notLease
    \/ \E w \in Workers, key \in LeaseKeys : LCallDelete(w, key) /\ UNCHANGED notLease
    \/ \E w \in Workers : LCallReclaim(w) /\ UNCHANGED notLease
    \/ \E w \in Workers : LLock(w) /\ UNCHANGED notLease
    \/ \E w \in Workers : LFind(w) /\ UNCHANGED notLease
    \/ \E w \in Workers : LApply(w) /\ UNCHANGED notLease
    \/ \E w \in Workers : LUnlock(w) /\ UNCHANGED notLease
InitSpecLease ==
    IdleKey /\ IdleInterval /\ IdleDuration /\ IdleHeap /\ IdleStore /\ IdleMT /\ IdleStats
        /\ InitLease /\ IdleParking /\ IdleAlloc /\ IdleLib /\ IdleRace
SpecLease == InitSpecLease /\ [][NextLease]_vars

\* The transactions at the lease4_offer hook point and the parking lot. A parked
\* transaction has a timeout, so the timer's step is taken in the end unless the
\* transaction has left the lot before.
notParking ==
    <<keyvars, intvars, durvars, heapvars, storevars, mtvars, statvars, leasevars, allocvars,
      libvars, racevars>>
NextParking ==
    \/ \E x \in Xids : TxAllocate(x) /\ UNCHANGED notParking
    \/ \E x \in Xids, st \in CalloutStatuses : TxLease4Offer(x, st) /\ UNCHANGED notParking
    \/ \E x \in Xids : TxResume(x) /\ UNCHANGED notParking
    \/ \E x \in Xids : TxDrop(x) /\ UNCHANGED notParking
    \/ \E x \in Xids : TxTimeout(x) /\ UNCHANGED notParking
    \/ Shutdown /\ UNCHANGED notParking
FairParking == \A x \in Xids : WF_vars(TxTimeout(x) /\ UNCHANGED notParking)
InitSpecParking ==
    IdleKey /\ IdleInterval /\ IdleDuration /\ IdleHeap /\ IdleStore /\ IdleMT /\ IdleStats
        /\ IdleLease /\ InitParking /\ IdleAlloc /\ IdleLib /\ IdleRace
SpecParking == InitSpecParking /\ [][NextParking]_vars /\ FairParking

\* The allocation engine's DISCOVER and DECLINE with the store's timers.
notAlloc ==
    <<keyvars, intvars, durvars, heapvars, storevars, mtvars, statvars, parkvars,
      writer, lpc, lframe, lsnap, lhist, libvars, racevars>>
NextAlloc ==
    \/ \E c \in Clients, r \in RequestedAddresses : Discover(c, r) /\ UNCHANGED notAlloc
    \/ \E c \in Clients, a \in Pool : Decline(c, a) /\ UNCHANGED notAlloc
    \/ RecoverDeclined /\ UNCHANGED notAlloc
    \/ ReclaimExpired /\ UNCHANGED notAlloc
    \/ AllocTick /\ UNCHANGED notAlloc
InitSpecAlloc ==
    IdleKey /\ IdleInterval /\ IdleDuration /\ IdleHeap /\ IdleStore /\ IdleMT /\ IdleStats
        /\ IdleParking /\ InitAlloc /\ IdleLib /\ IdleRace
SpecAlloc == InitSpecAlloc /\ [][NextAlloc]_vars

\* The registry of host data source factories and one list of sources.
notHost ==
    <<keyvars, intvars, durvars, heapvars, storevars, mtvars, statvars, leasevars, parkvars,
      allocvars, ttlvars, dictvars, racevars>>
NextHost ==
    \/ \E t \in DbTypes, f \in Factories : HostRegisterFactory(t, f) /\ UNCHANGED notHost
    \/ \E t \in DbTypes : HostDeregisterFactory(t) /\ UNCHANGED notHost
    \/ \E t \in DbTypes : HostRegisteredFactory(t) /\ UNCHANGED notHost
    \/ \E a \in AccessStrings : HostAdd(a) /\ UNCHANGED notHost
    \/ \E t \in DbTypes : HostDel(t) /\ UNCHANGED notHost
    \/ \E t \in DbTypes, a \in AccessStrings, u \in BOOLEAN :
          HostDelAccess(t, a, u) /\ UNCHANGED notHost
    \/ \E i \in 1..MaxSources : SourceUnusable(i) /\ UNCHANGED notHost
InitSpecHost ==
    IdleKey /\ IdleInterval /\ IdleDuration /\ IdleHeap /\ IdleStore /\ IdleMT /\ IdleStats
        /\ IdleLease /\ IdleParking /\ IdleAlloc /\ InitHost /\ IdleTtl /\ IdleDict
        /\ IdleRace
SpecHost == InitSpecHost /\ [][NextHost]_vars

----------------------------------------------------------------------------
(* RRTTL: a TTL from its text and back (lib/dns/rrttl.cc).                 *)
(* A string is the sequence of its characters. A number of the constructor *)
(* (int64_t val and value, uint32_t ttlval_) is the sequence of its        *)
(* decimal digits, lowest first, with no zero digit at its high end but    *)
(* for the number zero, <<0>>: the numbers go beyond the integers of TLC.  *)

DigitChars == <<"0", "1", "2", "3", "4", "5", "6", "7", "8", "9">>
LowerChars ==
    <<"a", "b", "c", "d", "e", "f", "g", "h", "i", "j", "k", "l", "m",
      "n", "o", "p", "q", "r", "s", "t", "u", "v", "w", "x", "y", "z">>
UpperChars ==
    <<"A", "B", "C", "D", "E", "F", "G", "H", "I", "J", "K", "L", "M",
      "N", "O", "P", "Q", "R", "S", "T", "U", "V", "W", "X", "Y", "Z">>
IsDigit(c) == \E i \in 1..Len(DigitChars) : DigitChars[i] = c
DigitOf(c) == (CHOOSE i \in 1..Len(DigitChars) : DigitChars[i] = c) - 1
myIsalpha(c) == \E i \in 1..Len(LowerChars) : LowerChars[i] = c \/ UpperChars[i] = c
toupper(c) ==
    IF \E i \in 1..Len(LowerChars) : LowerChars[i] = c
    THEN UpperChars[CHOOSE i \in 1..Len(LowerChars) : LowerChars[i] = c]
    ELSE c

\* Arithmetic on digit sequences.
Reverse(s) == [i \in 1..Len(s) |-> s[Len(s) + 1 - i]]
RECURSIVE Trim(_)
Trim(n) == IF Len(n) > 1 /\ n[Len(n)] = 0 THEN Trim(SubSeq(n, 1, Len(n) - 1)) ELSE n
Decimal(digits) == Trim(Reverse(digits))
DigitAt(n, i) == IF i <= Len(n) THEN n[i] ELSE 0
RECURSIVE PlusFrom(_, _, _, _)
PlusFrom(a, b, i, carry) ==
    IF i > Len(a) /\ i > Len(b)
    THEN IF carry = 0 THEN << >> ELSE <<carry>>
    ELSE LET s == DigitAt(a, i) + DigitAt(b, i) + carry
         IN  <<s % 10>> \o PlusFrom(a, b, i + 1, s \div 10)
Plus(a, b) == Trim(PlusFrom(a, b, 1, 0))
RECURSIVE TimesFrom(_, _, _, _)
TimesFrom(m, a, i, carry) ==
    IF i > Len(a)
    THEN IF carry = 0 THEN << >> ELSE <<carry % 10>> \o TimesFrom(m, a, i, carry \div 10)
    ELSE LET p == m * a[i] + carry
         IN  <<p % 10>> \o TimesFrom(m, a, i + 1, p \div 10)
Times(m, a) == Trim(TimesFrom(m, a, 1, 0))
RECURSIVE LessFrom(_, _, _)
LessFrom(a, b, i) == i > 0 /\ (a[i] < b[i] \/ (a[i] = b[i] /\ LessFrom(a, b, i - 1)))
LessNat(a, b) == Len(a) < Len(b) \/ (Len(a) = Len(b) /\ LessFrom(a, b, Len(a)))

\* 0xffffffff, and the largest int64_t.
Uint32Max == Decimal(<<4, 2, 9, 4, 9, 6, 7, 2, 9, 5>>)
Int64Max == Decimal(<<9, 2, 2, 3, 3, 7, 2, 0, 3, 6, 8, 5, 4, 7, 7, 5, 8, 0, 7>>)

\* The conversion of units to their size.
units ==
    <<[unit |-> "S", multiply |-> 1],
      [unit |-> "M", multiply |-> 60],
      [unit |-> "H", multiply |-> 60 * 60],
      [unit |-> "D", multiply |-> 24 * 60 * 60],
      [unit |-> "W", multiply |-> 7 * 24 * 60 * 60]>>

\* find_if(pos, end, myIsalpha): the first letter at or after pos, or end.
find_if(ttlstr, pos) ==
    LET letters == {i \in pos..Len(ttlstr) : myIsalpha(ttlstr[i])}
    IN  IF letters = {} THEN Len(ttlstr) + 1
        ELSE CHOOSE i \in letters : \A j \in letters : i <= j

\* The loop over units[]: the size of the first unit whose letter is the upper case
\* of c, None when the loop ends with found == false.
UnitSize(c) ==
    LET found == {i \in 1..Len(units) : toupper(c) = units[i].unit}
    IN  IF found = {} THEN None
        ELSE Some(units[CHOOSE i \in found : \A j \in found : i <= j].multiply)

\* boost::lexical_cast<int64_t>: an optional sign, then digits only and at least
\* one; None for bad_lexical_cast, which a value out of int64_t's range raises too.
lexical_cast(str) ==
    LET signed == Len(str) > 0 /\ str[1] \in {"+", "-"}
        text == IF signed THEN Tail(str) ELSE str
        mag == Decimal([i \in 1..Len(text) |-> DigitOf(text[i])])
        neg == signed /\ str[1] = "-"
    IN  IF Len(text) = 0 \/ \E i \in 1..Len(text) : ~IsDigit(text[i]) THEN None
        ELSE IF LessNat(IF neg THEN Plus(Int64Max, <<1>>) ELSE Int64Max, mag) THEN None
        ELSE Some([neg |-> neg /\ mag # <<0>>, mag |-> mag])

InvalidRRTTL(what) == [ttlval_ |-> None, exc |-> "InvalidRRTTL", what |-> what]

\* The body of the while loop from position pos with the running total val, and the
\* range test after the loop. A number of more than ten characters is rejected whatever
\* val += multiply * value left in val (a signed overflow for numbers of 14 digits
\* and more), a value that is not positive before val is looked at: the sum is taken
\* for a positive value of at most ten characters only.
RECURSIVE ParseTtlFrom(_, _, _)
ParseTtlFrom(ttlstr, pos, val) ==
    LET end == Len(ttlstr) + 1
        unit == find_if(ttlstr, pos)
        multiply == IF unit = end THEN Some(1) ELSE UnitSize(ttlstr[unit])
        value == lexical_cast(SubSeq(ttlstr, pos, unit - 1))
        total == Plus(val, Times(multiply[1], value[1].mag))
    IN  IF pos = end
        THEN IF ~LessNat(Uint32Max, val)
             THEN [ttlval_ |-> Some(val), exc |-> "", what |-> ""]
             ELSE InvalidRRTTL("TTL out of range")
        ELSE IF multiply = None THEN InvalidRRTTL("Unknown unit used")
        ELSE IF unit = pos THEN InvalidRRTTL("Missing number in TTL")
        ELSE IF value = None THEN InvalidRRTTL("invalid TTL")
        ELSE IF \/ unit - pos > 10
                \/ value[1].neg \/ value[1].mag = <<0>>
                \/ total = <<0>>
                \/ ~LessNat(total, Uint32Max)
        THEN InvalidRRTTL("Part of TTL out of range")
        ELSE ParseTtlFrom(ttlstr, IF unit = end THEN unit ELSE unit + 1, total)

\* RRTTL::RRTTL(const std::string& ttlstr).
RRTTL(ttlstr) ==
    IF Len(ttlstr) = 0 THEN InvalidRRTTL("Empty TTL string")
    ELSE ParseTtlFrom(ttlstr, 1, <<0>>)

\* InputBuffer::readUint32(): the four octets at the position, the first one the most
\* significant, and the position moved past them.
Octet(b) == Trim(<<b % 10, (b \div 10) % 10, b \div 100>>)
RECURSIVE NetworkOrder(_, _, _)
NetworkOrder(data, from, n) ==
    IF n = 0 THEN <<0>>
    ELSE Plus(Times(256, NetworkOrder(data, from, n - 1)), Octet(data[from + n]))
readUint32(buffer) ==
    [value |-> NetworkOrder(buffer.data, buffer.position, 4),
     buffer |-> [buffer EXCEPT !.position = @ + 4]]

\* RRTTL::RRTTL(InputBuffer& buffer), lines 130-135
RRTTLFromWire(buffer) ==
    IF Len(buffer.data) - buffer.position < 4
    THEN [ttlval_ |-> None, exc |-> "IncompleteRRTTL",
          what |-> "incomplete wire-format TTL value", buffer |-> buffer]
    ELSE LET r == readUint32(buffer)
         IN  [ttlval_ |-> Some(r.value), exc |-> "", what |-> "", buffer |-> r.buffer]

\* RRTTL::toText(): oss << ttlval_.
toText(ttlval_) == [i \in 1..Len(ttlval_) |-> DigitChars[ttlval_[Len(ttlval_) + 1 - i] + 1]]

\* The texts a TTL is constructed from: every string of up to MaxTtlLen characters
\* of TtlAlphabet, and texts at the ends of the range and of the grammar.
MaxTtlLen == 3
TtlAlphabet == {"0", "1", "9", "h", "W", "x", "-", "+"}
TtlBoundaryTexts ==
    { <<"0">>,
      <<"0", "0">>,
      <<"4", "2", "9", "4", "9", "6", "7", "2", "9", "4">>,
      <<"4", "2", "9", "4", "9", "6", "7", "2", "9", "5">>,
      <<"4", "2", "9", "4", "9", "6", "7", "2", "9", "6">>,
      <<"0", "0", "0", "0", "0", "0", "0", "0", "0", "1">>,
      <<"0", "0", "0", "0", "0", "0", "0", "0", "0", "0", "1">>,
      <<"1", "2", "3", "4", "5", "6", "7", "8", "9", "0", "1">>,
      <<"9", "2", "2", "3", "3", "7", "2", "0", "3", "6", "8", "5", "4", "7", "7", "5", "8", "0", "7">>,
      <<"9", "2", "2", "3", "3", "7", "2", "0", "3", "6", "8", "5", "4", "7", "7", "5", "8", "0", "8">>,
      <<"-", "9", "2", "2", "3", "3", "7", "2", "0", "3", "6", "8", "5", "4", "7", "7", "5", "8", "0", "8">>,
      <<"9", "9", "9", "9", "9", "9", "9", "9", "9", "9", "9", "9", "9", "9", "9", "9", "9", "9", "9", "9">>,
      <<"1", "S">>,
      <<"1", "m">>,
      <<"1", "D">>,
      <<"2", "d", "1", "h">>,
      <<"1", "W", "1", "D", "1", "H", "1", "M", "1", "S">>,
      <<"1", "s", "1", "m", "1", "h", "1", "d", "1", "w">>,
      <<"1", "H", "3", "0">>,
      <<"3", "0", "M", "1", "H", "1", "0">>,
      <<"0", "S">>,
      <<"1", "H", "0">>,
      <<"7", "1", "0", "1", "W">>,
      <<"7", "1", "0", "2", "W">>,
      <<"7", "1", "5", "8", "2", "7", "8", "8", "M", "1", "4", "S">>,
      <<"7", "1", "5", "8", "2", "7", "8", "8", "M", "1", "5", "S">>,
      <<"7", "1", "5", "8", "2", "7", "8", "8", "M", "1", "6">>,
      <<"4", "2", "9", "4", "9", "6", "7", "2", "9", "4", "S", "1">>,
      <<"4", "2", "9", "4", "9", "6", "7", "2", "9", "4", "S", "2">>,
      <<"1", "Y">>,
      <<"1", " ", "H">>,
      <<"1", ".", "5", "H">>,
      <<"H", "H">>,
      <<"1", "H", "H">>,
      <<"+", "1", "H">>,
      <<"-", "1", "H">>,
      <<"1", "H", "-", "1">> }
TtlTexts == UNION {[1..n -> TtlAlphabet] : n \in 0..MaxTtlLen} \cup TtlBoundaryTexts

\* The wire data a TTL is read from, with the position of the next octet: the ends of
\* the range, values in between, and buffers with fewer than four octets left.
WireBuffers ==
    {[data |-> <<255, 255, 255, 255>>, position |-> 0],
     [data |-> <<0, 0, 0, 0>>, position |-> 0],
     [data |-> <<0, 0, 14, 16>>, position |-> 0],
     [data |-> <<7, 128, 0, 1, 44, 9>>, position |-> 1],
     [data |-> <<0, 1>>, position |-> 0],
     [data |-> <<0, 0, 0, 1>>, position |-> 1],
     [data |-> <<0, 0, 0, 1>>, position |-> 4]}

\* A TTL is about to be constructed from a text, or from wire data (buffer).
InitTtl ==
    \/ \E ttlstr \in TtlTexts :
          rrttl = [ttlstr |-> ttlstr, buffer |-> None, done |-> FALSE, ttlval_ |-> None,
                   exc |-> "", what |-> "", text |-> None]
    \/ \E buffer \in WireBuffers :
          rrttl = [ttlstr |-> <<>>, buffer |-> Some(buffer), done |-> FALSE,
                   ttlval_ |-> None, exc |-> "", what |-> "", text |-> None]

\* RRTTL ttl(buffer).
TtlFromWire ==
    /\ ~rrttl.done
    /\ rrttl.buffer # None
    /\ LET r == RRTTLFromWire(rrttl.buffer[1])
       IN  rrttl' = [rrttl EXCEPT !.done = TRUE, !.ttlval_ = r.ttlval_, !.exc = r.exc,
                                  !.what = r.what, !.buffer = Some(r.buffer)]

\* RRTTL ttl(ttlstr).
TtlConstruct ==
    /\ ~rrttl.done
    /\ rrttl.buffer = None
    /\ LET r == RRTTL(rrttl.ttlstr)
       IN  rrttl' = [rrttl EXCEPT !.done = TRUE, !.ttlval_ = r.ttlval_, !.exc = r.exc,
                                  !.what = r.what]

\* ttl.toText() on a constructed RRTTL.
TtlToText ==
    /\ rrttl.done /\ rrttl.exc = "" /\ rrttl.text = None
    /\ rrttl' = [rrttl EXCEPT !.text = Some(toText(rrttl.ttlval_[1]))]

\* One TTL text, constructed and written back.
notTtl ==
    <<keyvars, intvars, durvars, heapvars, storevars, mtvars, statvars, leasevars, parkvars,
      allocvars, hostvars, dictvars, racevars>>
NextTtl ==
    \/ TtlConstruct /\ UNCHANGED notTtl
    \/ TtlFromWire /\ UNCHANGED notTtl
    \/ TtlToText /\ UNCHANGED notTtl
InitSpecTtl ==
    IdleKey /\ IdleInterval /\ IdleDuration /\ IdleHeap /\ IdleStore /\ IdleMT /\ IdleStats
        /\ IdleLease /\ IdleParking /\ IdleAlloc /\ IdleHost /\ InitTtl /\ IdleDict
        /\ IdleRace
SpecTtl == InitSpecTtl /\ [][NextTtl]_vars

----------------------------------------------------------------------------
(* The message dictionary of tools/system_messages.cc.                     *)
(* The dictionary (a std::map) is the set of its entries, one per key. A   *)
(* message ID and a key are sequences of characters; message texts, file   *)
(* names and description lines are strings, of which only emptiness and    *)
(* equality are looked at.                                                 *)

\* dictionary.count(key).
DictCount(dict, key) == Cardinality({e \in dict : e.key = key})

\* dictionary.insert(pair): no effect when the key is there.
DictInsert(dict, key, details) ==
    IF DictCount(dict, key) > 0 THEN dict ELSE dict \cup {[key |-> key, details |-> details]}

\* boost::lexical_cast<std::string>(i) for i >= 0.
RECURSIVE IntText(_)
IntText(i) == IF i < 10 THEN <<DigitChars[i + 1]>> ELSE IntText(i \div 10) \o <<DigitChars[(i % 10) + 1]>>

\* msgid + " (" + s + ")".
SuffixedKey(msgid, i) == msgid \o <<" ", "(">> \o IntText(i) \o <<")">>

\* The while loop: the first of msgid (1), msgid (2), ... from i on that is no key.
RECURSIVE FirstFreeSuffix(_, _, _)
FirstFreeSuffix(dict, msgid, i) ==
    IF DictCount(dict, SuffixedKey(msgid, i)) > 0
    THEN FirstFreeSuffix(dict, msgid, i + 1)
    ELSE SuffixedKey(msgid, i)

\* The key of a new message: msgid, or the first free suffixed key when msgid is a key.
UniqueKeyAlwaysFirst(dict, msgid) ==
    IF DictCount(dict, msgid) > 0 THEN SuffixedKey(msgid, 1) ELSE msgid
UniqueKey(dict, msgid) ==
    IF DictCount(dict, msgid) > 0 THEN FirstFreeSuffix(dict, msgid, 1) ELSE msgid

\* removeEmptyLeadingTrailing(lines).
RECURSIVE DropLeadingEmpty(_)
DropLeadingEmpty(lines) ==
    IF Len(lines) > 0 /\ lines[1] = "" THEN DropLeadingEmpty(Tail(lines)) ELSE lines
RECURSIVE DropTrailingEmpty(_)
DropTrailingEmpty(lines) ==
    IF Len(lines) > 0 /\ lines[Len(lines)] = ""
    THEN DropTrailingEmpty(SubSeq(lines, 1, Len(lines) - 1))
    ELSE lines
removeEmptyLeadingTrailing(lines) == DropTrailingEmpty(DropLeadingEmpty(lines))

\* msgid.substr(0, msgid.find_first_of('_')): the whole ID when it has no underscore.
SectionName(msgid) ==
    LET under == {i \in 1..Len(msgid) : msgid[i] = "_"}
    IN  IF under = {} THEN msgid
        ELSE SubSeq(msgid, 1, (CHOOSE i \in under : \A j \in under : i <= j) - 1)

\* addToDictionary(msgid, msgtext, desc, filename).
addToDictionary(dict, msgid, msgtext, desc, filename) ==
    LET key == UniqueKey(dict, msgid)
        details == [text |-> msgtext, description |-> removeEmptyLeadingTrailing(desc),
                    sname |-> SectionName(msgid), filename |-> filename]
    IN  [key |-> key, dictionary |-> DictInsert(dict, key, details)]

\* The calls of the model: at most MaxMessages of them, IDs with and without underscore and
\* one that reads like a suffixed key, two texts, descriptions with and without empty lines
\* at their ends.
MaxMessages == 3
MessageIds == {<<"A", "_", "B">>, <<"A", "_", "B", " ", "(", "1", ")">>, <<"A", "B", "_", "C", "_", "D">>, <<"A", "B">>}
MessageTexts == {"first text", "second text"}
Descriptions == {<< >>, <<"", "line", "">>, <<"line", "", "more">>}
MessageFile == "file.mes"

InitDict == dictionary = {} /\ lastMsg = None

AddToDictionary(msgid, msgtext, desc) ==
    /\ Cardinality(dictionary) < MaxMessages
    /\ LET r == addToDictionary(dictionary, msgid, msgtext, desc, MessageFile)
       IN  /\ dictionary' = r.dictionary
           /\ lastMsg' = Some([msgid |-> msgid, msgtext |-> msgtext, desc |-> desc,
                               key |-> r.key])

\* The dictionary under a sequence of addToDictionary calls.
notDict ==
    <<keyvars, intvars, durvars, heapvars, storevars, mtvars, statvars, leasevars, parkvars,
      allocvars, hostvars, ttlvars, racevars>>
NextDict ==
    \E msgid \in MessageIds, msgtext \in MessageTexts, desc \in Descriptions :
        AddToDictionary(msgid, msgtext, desc) /\ UNCHANGED notDict
InitSpecDict ==
    IdleKey /\ IdleInterval /\ IdleDuration /\ IdleHeap /\ IdleStore /\ IdleMT /\ IdleStats
        /\ IdleLease /\ IdleParking /\ IdleAlloc /\ IdleHost /\ IdleTtl /\ InitDict
        /\ IdleRace
SpecDict == InitSpecDict /\ [][NextDict]_vars

----------------------------------------------------------------------------
(* Claims                                                                  *)

SeqSum(s) == LET RECURSIVE sum(_)
                 sum(i) == IF i = 0 THEN 0 ELSE s[i] + sum(i - 1)
             IN sum(Len(s))
SeqMin(s) == CHOOSE x \in {s[i] : i \in 1..Len(s)} : \A i \in 1..Len(s) : x <= s[i]
SeqMax(s) == CHOOSE x \in {s[i] : i \in 1..Len(s)} : \A i \in 1..Len(s) : x >= s[i]

\* The interval an object's pointer p refers to, in heap iv.
CurrentOf(m, iv) == iv[m.current_interval_]
PreviousOf(m, iv) == iv[m.previous_interval_]
Summary(start, s) ==
    [start_time_ |-> start, occurrences_ |-> Len(s), min_duration_ |-> SeqMin(s),
     max_duration_ |-> SeqMax(s), total_duration_ |-> SeqSum(s)]

\* C1: addSample reports (returns true) exactly when a current interval existed and
\* more than the interval duration has passed since its start; then the old current
\* interval becomes the previous one and a new current interval starts at now. With
\* no current interval it opens one at now and returns false. In every case the
\* sample is counted in the current interval.
C1_AddSampleReport ==
    [][ Len(calls') = Len(calls) + 1 =>
        LET c == calls'[Len(calls')]
            had == mond.current_interval_ # 0
            due == had /\ now - CurrentOf(mond, intervals).start_time_ > mond.interval_duration_
            cur == CurrentOf(mond', intervals')
        IN /\ c.report = due
           /\ mond'.current_interval_ # 0
           /\ due => /\ mond'.previous_interval_ # 0
                     /\ PreviousOf(mond', intervals') = CurrentOf(mond, intervals)
                     /\ cur = Summary(now, <<c.sample>>)
           /\ ~had => /\ cur = Summary(now, <<c.sample>>)
                      /\ mond'.previous_interval_ = 0
           /\ (had /\ ~due) =>
                 LET old == CurrentOf(mond, intervals)
                 IN /\ cur.start_time_ = old.start_time_
                    /\ cur.occurrences_ = old.occurrences_ + 1
                    /\ cur.total_duration_ = old.total_duration_ + c.sample
                    /\ cur.min_duration_ = IF c.sample < old.min_duration_
                                           THEN c.sample ELSE old.min_duration_
                    /\ cur.max_duration_ = IF c.sample > old.max_duration_
                                           THEN c.sample ELSE old.max_duration_
                    /\ mond'.previous_interval_ = mond.previous_interval_
                    /\ mond.previous_interval_ # 0 =>
                          PreviousOf(mond', intervals') = PreviousOf(mond, intervals)
      ]_vars

\* C1 witness: a sample was reported exactly one tick past the interval duration, and
\* an earlier one exactly at the interval duration was not.
C1_Witness ==
    /\ Len(calls) = 3
    /\ calls[2].time - calls[1].time = mond.interval_duration_
    /\ ~calls[2].report
    /\ calls[3].time - calls[1].time = mond.interval_duration_ + 1
    /\ calls[3].report
    /\ mond.previous_interval_ # 0

\* The times of three calls follow the pattern t0, t0+e, t0+L+e with 0 < e < L.
RotationPattern ==
    /\ Len(calls) = 3
    /\ calls[2].time - calls[1].time > 0
    /\ calls[2].time - calls[1].time < mond.interval_duration_
    /\ calls[3].time = calls[2].time + mond.interval_duration_

\* C2: samples at t0, t0+e and t0+L+e (0 < e < L) on a fresh MonitoredDuration: only
\* the third call rotates; the previous interval starts at t0 and summarises the first
\* two samples, the current one starts at t0+L+e and holds the third sample alone.
C2_RotationScenario ==
    RotationPattern =>
        /\ <<calls[1].report, calls[2].report, calls[3].report>> = <<FALSE, FALSE, TRUE>>
        /\ mond.previous_interval_ # 0
        /\ PreviousOf(mond, intervals) =
               Summary(calls[1].time, <<calls[1].sample, calls[2].sample>>)
        /\ mond.current_interval_ # 0
        /\ CurrentOf(mond, intervals) = Summary(calls[3].time, <<calls[3].sample>>)

\* C2 witness: the three calls of the scenario were made, with different samples.
C2_Witness ==
    /\ RotationPattern
    /\ calls[1].sample # calls[2].sample

\* C4: operator< is the lexicographic order over (family, query type, response type,
\* start label, end label, subnet id), and operator== holds iff all six fields agree.
LexLess(a, b) ==
    \/ a.family_ < b.family_
    \/ /\ a.family_ = b.family_
       /\ \/ a.query_type_ < b.query_type_
          \/ /\ a.query_type_ = b.query_type_
             /\ \/ a.response_type_ < b.response_type_
                \/ /\ a.response_type_ = b.response_type_
                   /\ \/ StrLess(a.start_event_label_, b.start_event_label_)
                      \/ /\ a.start_event_label_ = b.start_event_label_
                         /\ \/ StrLess(a.end_event_label_, b.end_event_label_)
                            \/ /\ a.end_event_label_ = b.end_event_label_
                               /\ a.subnet_id_ < b.subnet_id_
C4_LexicographicOrder ==
    cmp # None =>
        /\ cmp[1].lt = LexLess(ka, kb)
        /\ cmp[1].gt = LexLess(kb, ka)
        /\ cmp[1].eq = (ka = kb)

\* C7: the average is total/occurrences (the quotient of the tick counts, rounded
\* toward zero) when there are occurrences, and zero when there are none.
C7_Average ==
    avg # None =>
        LET iv == avg[1].of
            r == avg[1].result
            n == iv.occurrences_
            t == iv.total_duration_
        IN /\ n = 0 => r = 0
           /\ n > 0 => /\ t >= 0 => (r * n <= t /\ t < (r + 1) * n)
                       /\ t < 0 => (r * n >= t /\ t > (r - 1) * n)

\* C7 witness: an average was taken of an interval with two occurrences whose total
\* (1) is not a multiple of 2; the result is the truncated quotient 0.
C7_Witness ==
    /\ avg # None
    /\ avg[1].of.occurrences_ = 2
    /\ avg[1].of.total_duration_ = 1
    /\ avg[1].result = 0

\* C8: after any addDuration calls, occurrences is their number, total their sum, min
\* the smallest and max the largest sample; so with occurrences > 0, min <= max and
\* min*occurrences <= total <= max*occurrences.
C8_IntervalSummary ==
    /\ dint.occurrences_ = Len(added)
    /\ dint.total_duration_ = SeqSum(added)
    /\ Len(added) > 0 =>
          /\ dint.min_duration_ = SeqMin(added)
          /\ dint.max_duration_ = SeqMax(added)
          /\ dint.min_duration_ <= dint.max_duration_
          /\ dint.min_duration_ * dint.occurrences_ <= dint.total_duration_
          /\ dint.total_duration_ <= dint.max_duration_ * dint.occurrences_

\* C8 witness: three samples, the smallest added second and the largest last.
C8_Witness ==
    /\ Len(added) = 3
    /\ added[2] < added[1]
    /\ added[3] > added[1]

\* What the store holds, as its readers see it: each stored duration with the contents
\* of its intervals, in index order.
StoreView == [j \in 1..Len(durations_) |-> View(durations_[j], intervals)]

\* C3: the objects the store returns are snapshots: addSample or clear on an object the
\* caller holds (returned by addDuration, getDuration or getAll, or passed to
\* updateDuration before) never changes what the store holds.
C3_Snapshots ==
    [][ lastOp'.op \in {"addSample", "clear"} => StoreView' = StoreView ]_vars

\* No two stored durations have equal keys.
UniqueKeys ==
    \A i, j \in 1..Len(durations_) :
        i # j => ~KeyEquals(durations_[i].key, durations_[j].key)

\* C5: the store holds at most one duration per key, and addDuration for a key that is
\* stored throws DuplicateDurationKey and leaves the store, intervals included, as it was.
C5_OnePerKey ==
    /\ []UniqueKeys
    /\ [][ ( /\ lastOp'.op = "addDuration"
             /\ lastOp'.key # None
             /\ \E i \in 1..Len(durations_) : KeyEquals(durations_[i].key, lastOp'.key[1]) )
           => ( /\ lastOp'.exc = "DuplicateDurationKey"
                /\ StoreView' = StoreView ) ]_vars

\* C9: MonitoredDurationStore::clear always throws NotImplemented and leaves every
\* stored duration as it was.
C9_ClearNotImplemented ==
    [][ lastOp'.op = "storeClear"
        => ( /\ lastOp'.exc = "NotImplemented"
             /\ durations_' = durations_
             /\ StoreView' = StoreView ) ]_vars

\* C9 witness: clear was called on a store holding two durations, one with an interval.
C9_Witness ==
    /\ lastOp.op = "storeClear"
    /\ Len(durations_) = 2
    /\ \E i \in 1..Len(durations_) : durations_[i].current_interval_ # 0

\* Threads inside the lock's scope.
InLock == {t \in Threads : pc[t] \in {"find", "apply", "unlock"}}

\* The mutex is held by the one thread inside the lock's scope, if there is one.
MutualExclusion ==
    /\ Cardinality(InLock) <= 1
    /\ \A t \in InLock : mutex_ = t
    /\ InLock = {} => mutex_ = 0

\* Between a call's lookup and the end of what it does with the position found,
\* the container is the one the lookup saw.
IteratorValid ==
    \A t \in Threads : pc[t] = "apply" => frame[t][1].seen = durations_

\* What getAll returns is the container's contents at one instant.
WholeCollection ==
    \A t \in Threads :
        (pc[t] = "unlock" /\ frame[t][1].op = "getAll")
            => /\ Len(frame[t][1].coll) = Len(durations_)
               /\ \A i \in DOMAIN durations_ : frame[t][1].coll[i] = durations_[i]

\* What getDuration returned is the stored element of that key, or nothing when
\* there is none.
WholeElement ==
    \A t \in Threads :
        (pc[t] = "unlock" /\ frame[t][1].op = "getDuration")
            => LET i == Find(durations_, index_, frame[t][1].key[1])
               IN held[t] = IF i = 0 THEN None ELSE Some(durations_[i])

\* The outcomes of the addDuration calls for key k that reached the container.
AddOutcomes(k) ==
    [t \in Threads |->
        SelectSeq(hist[t], LAMBDA h : h.op = "addDuration" /\ h.key = Some(k)
                                      /\ h.exc # "BadValue")
        \o (IF pc[t] = "unlock" /\ frame[t][1].op = "addDuration"
               /\ frame[t][1].key = Some(k)
            THEN <<[exc |-> frame[t][1].exc]>> ELSE <<>>)]

CountExc(seq, exc) == Len(SelectSeq(seq, LAMBDA h : h.exc = exc))

RECURSIVE SumOver(_, _)
SumOver(f, S) ==
    IF S = {} THEN 0
    ELSE LET x == CHOOSE y \in S : TRUE IN f[x] + SumOver(f, S \ {x})

\* Was deleteDuration called for key k?
Deleted(k) ==
    \E t \in Threads :
        \/ \E i \in DOMAIN hist[t] : hist[t][i].op = "deleteDuration" /\ hist[t][i].key = Some(k)
        \/ frame[t] # None /\ frame[t][1].op = "deleteDuration" /\ frame[t][1].key = Some(k)

\* Of the addDuration calls for a key that is never deleted, one succeeds and every
\* other one throws DuplicateDurationKey.
OneAddWins ==
    \A k \in IndexKeys :
        LET o == AddOutcomes(k)
            n == SumOver([t \in Threads |-> Len(o[t])], Threads)
            ok == SumOver([t \in Threads |-> CountExc(o[t], "")], Threads)
            dup == SumOver([t \in Threads |-> CountExc(o[t], "DuplicateDurationKey")], Threads)
        IN (~Deleted(k) /\ n > 0) => (ok = 1 /\ dup = n - 1)

\* C6: under every interleaving of threads calling addDuration, updateDuration,
\* deleteDuration, getDuration and getAll on one store, each call's lookup and
\* change of the container run under the store mutex with no other call's in
\* between: concurrent addDuration calls for one key end with one success and
\* DuplicateDurationKey for the others, and getDuration and getAll return the
\* container's contents of one instant.
C6_AtomicUnderMutex ==
    /\ MutualExclusion
    /\ IteratorValid
    /\ WholeCollection
    /\ WholeElement
    /\ UniqueKeys
    /\ OneAddWins

\* The call the last step made was a setValue or addValue of a type other than ty.
OtherType(ty) ==
    /\ lastStat'.op \in {"setValue", "addValue"}
    /\ lastStat'.name \in DOMAIN ty
    /\ ty[lastStat'.name] # lastStat'.type

Rejected == lastStat'.exc = "InvalidStatType" /\ stats' = stats

\* C10 as stated: once a name has been recorded with a type by its first setValue or
\* addValue, every later setValue or addValue of another type on that name raises
\* InvalidStatType and leaves the statistic's type and value unchanged.
C10_TypeFixedForName ==
    [][ OtherType(typed) => Rejected ]_vars

\* C10 amended: while a statistic of that name is stored (it has not been removed by
\* del or removeAll since it was recorded), every setValue or addValue of a type other
\* than the statistic's raises InvalidStatType and leaves the statistic's type and
\* value, and every other statistic, unchanged.
C10_TypeFixedWhileStored ==
    [][ OtherType([n \in DOMAIN stats |-> stats[n].type_]) => Rejected ]_vars

\* C10 witness: an addValue of another type was rejected on a name whose statistic was
\* removed and recorded again with a type other than its first.
C10_Witness ==
    /\ lastStat.op = "addValue"
    /\ lastStat.exc = "InvalidStatType"
    /\ lastStat.name \in DOMAIN stats
    /\ stats[lastStat.name].type_ # lastStat.type
    /\ typed[lastStat.name] # stats[lastStat.name].type_

\* The statistics other than n are as they were.
OthersKept(n) ==
    \A m \in StatNames \ {n} :
        /\ m \in DOMAIN stats' <=> m \in DOMAIN stats
        /\ m \in DOMAIN stats => stats'[m] = stats[m]

\* C11: a setValue that succeeds leaves the named statistic with the given value; an
\* addValue that succeeds leaves it with the current value plus the given one for
\* integer, float and duration statistics and with the given string appended for
\* string statistics; on a name that is not stored either call stores the statistic
\* with that value and the type of the call.
C11_SetAndAdd ==
    [][ (lastStat'.op \in {"setValue", "addValue"} /\ lastStat'.exc = "")
          => LET n == lastStat'.name
                 v == lastStat'.value[1]
             IN /\ n \in DOMAIN stats'
                /\ stats'[n].type_ = lastStat'.type
                /\ stats'[n].value =
                      IF n \notin DOMAIN stats \/ lastStat'.op = "setValue" THEN v
                      ELSE IF lastStat'.type = "STAT_STRING" THEN stats[n].value \o v
                      ELSE stats[n].value + v
                /\ OthersKept(n) ]_vars

\* C11 witness: addValue has appended to a string statistic that held a string, and
\* another statistic holds a sum.
C11_Witness ==
    /\ lastStat.op = "addValue" /\ lastStat.exc = ""
    /\ lastStat.type = "STAT_STRING"
    /\ lastStat.value = Some(<<120>>)
    /\ stats[lastStat.name].value = <<120, 120>>
    /\ \E m \in DOMAIN stats : stats[m].type_ = "STAT_INTEGER" /\ stats[m].value = 2

\* C12: the count bound on sample retention is honored: setMaxSampleCount(name, n)
\* succeeds, and from then on the named statistic retains no more than n samples
\* whatever setValue and addValue calls follow.
C12_CountBoundHonored ==
    [][ lastStat'.op = "setMaxSampleCount"
          => /\ lastStat'.exc = ""
             /\ lastStat'.name \in DOMAIN stats'
                  => SampleCount(stats'[lastStat'.name]) <= lastStat'.value[1] ]_vars

\* C13: setMaxSampleAge throws NotImplemented for every name and duration and leaves
\* every statistic, its retained sample included, as it was.
C13_MaxSampleAgeNotImplemented ==
    [][ lastStat'.op = "setMaxSampleAge"
          => /\ lastStat'.exc = "NotImplemented"
             /\ stats' = stats ]_vars

\* C13 witness: setMaxSampleAge was called for a stored statistic that holds a value,
\* and for a name that is not stored.
C13_Witness ==
    /\ lastStat.op = "setMaxSampleAge"
    /\ lastStat.name \in DOMAIN stats
    /\ stats[lastStat.name].value # Neutral(stats[lastStat.name].type_)
    /\ DOMAIN stats # StatNames

\* A call of the history made on its own.
SerialCall(h, st) ==
    CASE h.op = "addValue" -> addValue(st, SharedName, "STAT_INTEGER", 1).stats
      [] h.op = "removeAll" -> removeAll(st)
      [] h.op = "del" -> del(st, SharedName).stats
      [] h.op = "resetAll" -> resetAll(st)

\* The statistics the threads' calls can end with when they are made one after the
\* other, each thread's in its own order, the first pos[t] of thread t being made.
RECURSIVE SerialResults(_, _)
SerialResults(pos, st) ==
    LET todo == {t \in Threads : pos[t] < Len(hist[t])}
    IN IF todo = {} THEN {st}
       ELSE UNION {SerialResults([pos EXCEPT ![t] = @ + 1],
                                 SerialCall(hist[t][pos[t] + 1], st)) : t \in todo}

\* No thread reads or writes an observation the manager has dropped.
NoRemovedEntry ==
    \A t \in Threads : pc[t] \in {"read", "write", "set"} => ~frame[t][1].gone

\* C14: whatever the threads' addValue, removeAll, del and resetAll calls on the
\* shared manager, the process goes on with a sound container, no thread operates on
\* a removed entry, no call fails, and once all calls have returned the statistics
\* are those of some serial order of the calls (no increment is lost).
C14_SerialStats ==
    /\ fault = ""
    /\ NoRemovedEntry
    /\ \A t \in Threads : \A i \in DOMAIN hist[t] : hist[t][i].exc = ""
    /\ (\A t \in Threads : pc[t] = "idle")
          => stats \in SerialResults([t \in Threads |-> 0], << >>)

\* The parameters of the command the step answered.
Params == lastStat'.value[1]

\* The parameters are absent, hold no name, or hold a name that is not a string.
BadName(p) ==
    \/ p = None
    \/ "name" \notin DOMAIN p[1]
    \/ p[1].name.type # "string"

\* The command answered with an error response.
ErrorResponse ==
    /\ lastStat'.exc = ""
    /\ lastStat'.rsp # None
    /\ lastStat'.rsp[1].result = CONTROL_RESULT_ERROR

\* The command answered with a success response.
SuccessResponse ==
    /\ lastStat'.exc = ""
    /\ lastStat'.rsp # None
    /\ lastStat'.rsp[1].result = CONTROL_RESULT_SUCCESS

\* C15: statistic-get, statistic-reset and statistic-remove each return an error
\* response (result 1) and change no statistic when the parameters are absent, when
\* 'name' is missing and when 'name' is not a string.
C15_BadNameIsError ==
    [][ (lastStat'.op \in {"statistic-get", "statistic-reset", "statistic-remove"}
           /\ BadName(Params))
          => (ErrorResponse /\ stats' = stats) ]_vars

\* The name the parameters give.
GivenName == Params[1].name.value

\* C16: statistic-reset and statistic-remove with a string name return result 0
\* exactly when a statistic of that name is stored, and result 1 otherwise; after a
\* successful reset the statistic is stored with its type and its neutral value, after
\* a successful remove the name is not stored, and the other statistics are as they
\* were; after a failure every statistic is as it was and none was created.
C16_ResetAndRemove ==
    [][ (lastStat'.op \in {"statistic-reset", "statistic-remove"} /\ ~BadName(Params))
          => /\ IF GivenName \in DOMAIN stats THEN SuccessResponse ELSE ErrorResponse
             /\ (GivenName \in DOMAIN stats /\ lastStat'.op = "statistic-reset")
                   => /\ GivenName \in DOMAIN stats'
                      /\ stats'[GivenName].type_ = stats[GivenName].type_
                      /\ stats'[GivenName].value =
                            (IF stats[GivenName].type_ = "STAT_STRING" THEN <<>> ELSE 0)
                      /\ OthersKept(GivenName)
             /\ (GivenName \in DOMAIN stats /\ lastStat'.op = "statistic-remove")
                   => /\ GivenName \notin DOMAIN stats'
                      /\ OthersKept(GivenName)
             /\ GivenName \notin DOMAIN stats => stats' = stats ]_vars

\* C16 witness: statistic-remove has removed a statistic while another one that
\* holds a value stays stored.
C16_Witness ==
    /\ lastStat.op = "statistic-remove"
    /\ lastStat.rsp # None /\ lastStat.rsp[1].result = CONTROL_RESULT_SUCCESS
    /\ lastStat.value[1][1].name.value \notin DOMAIN stats
    /\ \E m \in DOMAIN stats : stats[m].value # Neutral(stats[m].type_)

\* C17: whatever their parameters, the -all commands return result 0: after
\* statistic-remove-all no statistic is stored; after statistic-reset-all the same
\* names are stored with the same types and every one holds its neutral value;
\* statistic-get-all answers with a map of one entry per stored statistic and changes
\* nothing.
C17_AllCommands ==
    [][ (lastStat'.op \in {"statistic-remove-all", "statistic-reset-all",
                           "statistic-get-all"})
          => /\ SuccessResponse
             /\ lastStat'.op = "statistic-remove-all" => count(stats') = 0
             /\ lastStat'.op = "statistic-reset-all"
                   => /\ DOMAIN stats' = DOMAIN stats
                      /\ \A n \in DOMAIN stats :
                            /\ stats'[n].type_ = stats[n].type_
                            /\ stats'[n].value =
                                  (IF stats[n].type_ = "STAT_STRING" THEN <<>> ELSE 0)
             /\ lastStat'.op = "statistic-get-all"
                   => /\ lastStat'.rsp[1].arguments # None
                      /\ DOMAIN lastStat'.rsp[1].arguments[1] = DOMAIN stats
                      /\ stats' = stats ]_vars

\* C17 witness: statistic-reset-all came with a name that is not a string while two
\* statistics of different types were stored.
C17_Witness ==
    /\ lastStat.op = "statistic-reset-all"
    /\ lastStat.value = Some(Some([name |-> IntElement(7)]))
    /\ DOMAIN stats = StatNames
    /\ stats["a"].type_ # stats["b"].type_

\* C18: statistic-get with a string name returns result 0 whether the name is stored
\* or not; its arguments are a map with the one entry of that name when it is stored
\* and the empty map when it is not; no statistic is created, reset or removed.
C18_GetReadOnly ==
    [][ (lastStat'.op = "statistic-get" /\ ~BadName(Params))
          => /\ SuccessResponse
             /\ lastStat'.rsp[1].arguments # None
             /\ DOMAIN lastStat'.rsp[1].arguments[1] =
                   (IF GivenName \in DOMAIN stats THEN {GivenName} ELSE {})
             /\ stats' = stats ]_vars

\* C18 witness: statistic-get was asked for a name that is not stored while another
\* statistic is, and answered with the empty map.
C18_Witness ==
    /\ lastStat.op = "statistic-get"
    /\ lastStat.rsp # None /\ lastStat.rsp[1].result = CONTROL_RESULT_SUCCESS
    /\ lastStat.rsp[1].arguments = Some(<< >>)
    /\ stats # << >>

\* The last step was a store call with an empty key or duration pointer.
NullArgument ==
    /\ lastOp'.op \in {"addDuration", "getDuration", "deleteDuration", "updateDuration"}
    /\ lastOp'.key = None

\* The last step was one of ops with a key of another family than the store's.
OtherFamily(ops) ==
    /\ lastOp'.op \in ops
    /\ lastOp'.key # None
    /\ lastOp'.key[1].family_ # StoreFamily

\* The last step was an updateDuration for a key that is not stored.
UpdateOfMissing ==
    /\ lastOp'.op = "updateDuration"
    /\ lastOp'.key # None
    /\ Find(durations_, index_, lastOp'.key[1]) = 0

\* The last step constructed a store or a duration with an interval duration that is
\* not positive.
BadInterval ==
    /\ lastOp'.op \in {"MonitoredDurationStore", "MonitoredDuration"}
    /\ lastOp'.interval_duration <= 0

\* Misuse with the error class of each kind, the family being looked at by ops.
MisuseReported(ops) ==
    /\ (NullArgument \/ OtherFamily(ops) \/ BadInterval) => lastOp'.exc = "BadValue"
    /\ UpdateOfMissing => lastOp'.exc = "InvalidOperation"
    /\ lastOp'.exc \in {"BadValue", "InvalidOperation"} => StoreView' = StoreView

\* C19 as stated: an empty key or duration pointer, or a key whose family is not the
\* store's, raises BadValue in every store call that takes one; updateDuration for a
\* key that is not stored raises InvalidOperation; constructing a MonitoredDuration or
\* a MonitoredDurationStore with an interval duration <= 0 raises BadValue; none of
\* these changes the store.
C19_MisuseRaises ==
    [][ MisuseReported({"addDuration", "getDuration", "deleteDuration"}) ]_vars

\* C19 amended: as stated, but the key's family is checked by addDuration alone:
\* getDuration and deleteDuration with a key of another family throw nothing, find
\* nothing and leave the store as it was.
C19_MisuseRaisesOnAdd ==
    [][ /\ MisuseReported({"addDuration"})
        /\ OtherFamily({"getDuration", "deleteDuration"})
              => (lastOp'.exc = "" /\ StoreView' = StoreView) ]_vars

\* C19 witness: updateDuration was refused with InvalidOperation for a duration whose
\* key is no longer stored while another duration is.
C19_Witness ==
    /\ lastOp.op = "updateDuration"
    /\ lastOp.exc = "InvalidOperation"
    /\ durations_ # <<>>

\* A thread that is not inside a store call, or that waits for the mutex, does not
\* hold it.
ReleasedOutside ==
    \A t \in Threads : pc[t] \in {"idle", "lock"} => mutex_ # t

\* C20: no store call holds the mutex once it has returned or thrown (the
\* DuplicateDurationKey and InvalidOperation ways out included), none asks for the
\* mutex while it holds it, and every call that was started completes.
C20_NoDeadlock ==
    /\ []ReleasedOutside
    /\ \A t \in Threads : [](pc[t] # "idle" => <>(pc[t] = "idle"))

\* C20 witness: one thread's updateDuration has thrown InvalidOperation and another's
\* addDuration DuplicateDurationKey, every call has returned and the mutex is free.
C20_Witness ==
    /\ \E t \in Threads : \E i \in DOMAIN hist[t] : hist[t][i].exc = "InvalidOperation"
    /\ \E t \in Threads : \E i \in DOMAIN hist[t] : hist[t][i].exc = "DuplicateDurationKey"
    /\ \A t \in Threads : pc[t] = "idle"
    /\ mutex_ = 0

\* No two leases of the table have the same primary key.
LeaseUnique ==
    \A a \in lease_table, b \in lease_table : PrimaryKey(a) = PrimaryKey(b) => a = b

\* The worker's call changes the table in this step.
Applies(w, op) ==
    /\ lpc[w] = "apply"
    /\ lpc'[w] = "unlock"
    /\ lframe[w][1].op = op

\* add of an address that the table holds fails and leaves the table as it is.
AddOfPresentFails ==
    \A w \in Workers :
        (Applies(w, "add") /\ Rows(lease_table, lframe[w][1].key) # {})
            => /\ lframe'[w][1].result = "Duplicate"
               /\ lease_table' = lease_table

\* C21: whatever the workers' add, update, delete_by_address and reclamation calls,
\* no two distinct leases of the store share a primary key, and add of an address
\* that is present fails and leaves the existing lease unchanged.
C21_PrimaryKeyUnique == []LeaseUnique /\ [][AddOfPresentFails]_vars

\* C21 witness: an add has failed on a present address, the table holds leases of
\* several addresses and reclamation has moved one to EXPIRED_RECLAIMED.
C21_Witness ==
    /\ \E w \in Workers : \E i \in DOMAIN lhist[w] :
          lhist[w][i].op = "add" /\ lhist[w][i].result = "Duplicate"
    /\ Cardinality(lease_table) >= 2
    /\ \E l \in lease_table : l.state = "EXPIRED_RECLAIMED"

\* update compares the caller's snapshot with the lease stored at that moment: equal,
\* the new lease takes its place; different, Conflict and the table as it was.
CompareAndReplace ==
    \A w \in Workers :
        Applies(w, "update")
            => LET f == lframe[w][1]
               IN IF Rows(lease_table, f.key) = {f.prior[1]}
                  THEN /\ lframe'[w][1].result = "Ok"
                       /\ Rows(lease_table', f.key) = {Changed(f.prior[1], f.change, ltime)}
                       /\ lease_table' \ Rows(lease_table', f.key)
                              = lease_table \ Rows(lease_table, f.key)
                  ELSE /\ lframe'[w][1].result = "Conflict"
                       /\ lease_table' = lease_table

\* The finished updates, as (worker, index in its history).
Updates == {c \in Workers \X (1..MaxLeaseOps + 1) :
              c[2] \in DOMAIN lhist[c[1]] /\ lhist[c[1]][c[2]].op = "update"}

\* Of the updates made with one snapshot, at most one has succeeded.
OneUpdatePerSnapshot ==
    \A c \in Updates, d \in Updates :
        (/\ c # d
         /\ lhist[c[1]][c[2]].prior = lhist[d[1]][d[2]].prior
         /\ lhist[c[1]][c[2]].result = "Ok")
            => lhist[d[1]][d[2]].result = "Conflict"

\* C22: update is an atomic compare-and-replace: it succeeds only when the caller's
\* prior snapshot equals the stored lease, else it returns Conflict and leaves the
\* stored lease; of two workers that read the same lease and both update it, at most
\* one succeeds.
C22_CompareAndReplace == [][CompareAndReplace]_vars /\ []OneUpdatePerSnapshot

\* C22 witness: two workers have updated from the same snapshot, one with success
\* and the other with Conflict.
C22_Witness ==
    \E c \in Updates, d \in Updates :
        /\ c[1] # d[1]
        /\ lhist[c[1]][c[2]].prior = lhist[d[1]][d[2]].prior
        /\ lhist[c[1]][c[2]].result = "Ok"
        /\ lhist[d[1]][d[2]].result = "Conflict"

\* The lot holds the parked transactions, and no more of them than its capacity.
WithinCapacity ==
    /\ parking_lot = {x \in Xids : tx[x].state = "PARKED"}
    /\ Cardinality(parking_lot) <= ParkedPacketLimit

\* A PARK returned while the lot is full: the transaction is dropped, the lot stays
\* and parking-lot-full goes up by one; any other step leaves the counter.
ParkRejectedWhenFull ==
    \A x \in Xids :
        (tx[x].state = "ALLOCATED" /\ tx'[x].hook = "PARK")
            => IF Cardinality(parking_lot) = ParkedPacketLimit
               THEN /\ tx'[x].state = "DROPPED"
                    /\ parking_lot' = parking_lot
                    /\ parking_lot_full' = parking_lot_full + 1
               ELSE /\ tx'[x].state = "PARKED"
                    /\ parking_lot' = parking_lot \cup {x}
                    /\ parking_lot_full' = parking_lot_full

\* C23: the parked transactions never exceed the parking lot's capacity; a PARK
\* returned while the lot is full is rejected, the transaction dropped and
\* parking-lot-full incremented by one; every parked transaction is resumed or
\* dropped in the end.
C23_ParkingLotBounded ==
    /\ []WithinCapacity
    /\ [][ParkRejectedWhenFull]_vars
    /\ \A x \in Xids : [](tx[x].state = "PARKED" => <>(tx[x].state \in {"SENT", "DROPPED"}))

\* C23 witness: with two transactions parked by lease4_offer, the third one's PARK
\* was rejected: it is dropped and parking-lot-full is one.
C23_Witness ==
    /\ Cardinality(parking_lot) = ParkedPacketLimit
    /\ \E x \in Xids : tx[x] = Transaction("DROPPED", "PARK")
    /\ parking_lot_full = 1

\* The address was declined and its decline-probation has not elapsed.
InProbation(a) ==
    declined_at[a].at >= 0 /\ ltime < declined_at[a].at + DeclineProbation

\* The engine answers a query in this step.
Answers(msgs) == response' # response /\ response'[1].msg \in msgs

\* A DECLINE of an address by the client that holds it leaves the lease DECLINED.
DeclineMarksDeclined ==
    \A c \in Clients, a \in Pool :
        (/\ Answers({""})
         /\ response'[1].client = c
         /\ response'[1].address = a
         /\ HeldBy(lease_table, a, c))
            => /\ \A l \in Rows(lease_table', V4Key(a)) : l.state = "DECLINED"
               /\ Rows(lease_table', V4Key(a)) # {}
               /\ declined_at'[a] = [at |-> ltime, by |-> c]

\* No address is offered while its decline-probation runs.
Quarantined ==
    (response # None /\ response[1].msg = "OFFER") => ~InProbation(response[1].address)

\* The pool addresses that have no lease or a reclaimed one.
Unused == {a \in Pool : \A l \in Rows(lease_table, V4Key(a)) : l.state = "EXPIRED_RECLAIMED"}

\* A DISCOVER without a requested address, from a client that has no lease and no
\* reservation, while an address is in probation: the offer is the first pool address
\* that is free or reclaimed.
NextFreeOffered ==
    \A c \in Clients :
        (/\ Answers({"OFFER", "NAK"})
         /\ response'[1].client = c
         /\ response'[1].requested = 0
         /\ Reservation(c) = 0
         /\ \A a \in Pool : ~HeldBy(lease_table, a, c)
         /\ \E a \in Pool : InProbation(a))
            => /\ response'[1].msg = "OFFER" <=> Unused # {}
               /\ Unused # {} => response'[1].address = Lowest(Unused)
               /\ \A a \in Pool : InProbation(a) => a \notin Unused

\* C24: after the holder's DECLINE of an address at time t the lease is DECLINED, no
\* allocation returns the address before t + decline-probation, and a DISCOVER of
\* another client in that window is offered the next free pool address.
C24_DeclineQuarantine ==
    /\ [][DeclineMarksDeclined]_vars
    /\ []Quarantined
    /\ [][NextFreeOffered]_vars

\* C24 witness: the pool's first address was declined by its holder and is in
\* probation, and another client's DISCOVER has been offered the second address.
C24_Witness ==
    /\ InProbation(1)
    /\ \E l \in Rows(lease_table, V4Key(1)) : l.state = "DECLINED"
    /\ response # None
    /\ response[1].msg = "OFFER"
    /\ response[1].address = 2
    /\ response[1].requested = 0
    /\ response[1].client \notin {declined_at[1].by, NClients}

\* The step is a call addDuration(key, sample) that stores a new record.
NewlyStored(key, sample) ==
    /\ \E h \in Handles : StoreAddDuration(key, sample, h)
    /\ lastOp'.exc = ""

\* What the record stored for the key shows after the step.
StoredView(key) == View(durations_'[Find(durations_', index_', key[1])], intervals')

\* C26: a record newly stored by addDuration(key, sample) has no previous interval;
\* it has no current interval when sample is zero or negative, and when sample > 0
\* its current interval has one occurrence with min, max and total equal to sample.
C26_NewRecordIntervals ==
    [][ \A key \in KeyArgs, sample \in FirstSamples :
          NewlyStored(key, sample)
            => /\ Find(durations_, index_, key[1]) = 0
               /\ Find(durations_', index_', key[1]) # 0
               /\ StoredView(key).previous = None
               /\ sample <= 0 => StoredView(key).current = None
               /\ sample > 0 =>
                     /\ StoredView(key).current # None
                     /\ StoredView(key).current[1].occurrences_ = 1
                     /\ StoredView(key).current[1].min_duration_ = sample
                     /\ StoredView(key).current[1].max_duration_ = sample
                     /\ StoredView(key).current[1].total_duration_ = sample ]_vars

\* C26 witness: addDuration has just stored a record with its first sample, next to a
\* record that was stored without one.
C26_Witness ==
    /\ lastOp.op = "addDuration"
    /\ lastOp.exc = ""
    /\ \E i \in 1..Len(durations_) :
          /\ KeyEquals(durations_[i].key, lastOp.key[1])
          /\ durations_[i].current_interval_ # 0
          /\ intervals[durations_[i].current_interval_].occurrences_ = 1
    /\ \E i \in 1..Len(durations_) : durations_[i].current_interval_ = 0

\* The triples of family, query and response the claim lists.
AcceptedTriple(family, query, resp) ==
    \/ /\ family = AF_INET
       /\ \/ query = DHCP_NOTYPE /\ resp \in {DHCP_NOTYPE, DHCPOFFER, DHCPACK, DHCPNAK}
          \/ query = DHCPDISCOVER /\ resp \in {DHCP_NOTYPE, DHCPOFFER, DHCPNAK}
          \/ query = DHCPREQUEST /\ resp \in {DHCP_NOTYPE, DHCPACK, DHCPNAK}
          \/ query = DHCPINFORM /\ resp \in {DHCP_NOTYPE, DHCPACK}
    \/ /\ family = AF_INET6
       /\ \/ /\ query \in {DHCPV6_NOTYPE, DHCPV6_SOLICIT}
             /\ resp \in {DHCPV6_NOTYPE, DHCPV6_ADVERTISE, DHCPV6_REPLY}
          \/ /\ query \in {DHCPV6_REQUEST, DHCPV6_RENEW, DHCPV6_REBIND, DHCPV6_CONFIRM}
             /\ resp \in {DHCPV6_NOTYPE, DHCPV6_REPLY}

\* C27: the construction of a DurationKey succeeds for the listed triples of family,
\* query type and response type, and throws BadValue for every other triple, any
\* family other than AF_INET and AF_INET6 included.
C27_KeyTriples ==
    cmp # None
        => /\ cmp[1].exc = "" <=> AcceptedTriple(cmp[1].family, cmp[1].query_type,
                                                  cmp[1].response_type)
           /\ cmp[1].exc # "" => (cmp[1].exc = "BadValue" /\ ka = None)
           /\ cmp[1].exc = "" =>
                 /\ ka # None
                 /\ ka[1].family_ = cmp[1].family
                 /\ ka[1].query_type_ = cmp[1].query_type
                 /\ ka[1].response_type_ = cmp[1].response_type

\* C27 witness: DHCPINFORM with DHCPNAK has been refused for AF_INET.
C27_Witness ==
    /\ cmp # None
    /\ cmp[1].family = AF_INET
    /\ cmp[1].query_type = DHCPINFORM
    /\ cmp[1].response_type = DHCPNAK
    /\ cmp[1].exc = "BadValue"

\* C28: operator< is a strict ordering: no key is less than itself, no two keys are
\* each less than the other, a < b and b < c give a < c, and of a < b, a == b and
\* b < a exactly one holds for any two keys.
C28_StrictOrdering ==
    cmp # None =>
        /\ ~KeyLess(ka, ka)
        /\ ~(cmp[1].lt /\ cmp[1].gt)
        /\ \A kc \in Keys : (cmp[1].lt /\ KeyLess(kb, kc)) => KeyLess(ka, kc)
        /\ \/ cmp[1].lt /\ ~cmp[1].eq /\ ~cmp[1].gt
           \/ ~cmp[1].lt /\ cmp[1].eq /\ ~cmp[1].gt
           \/ ~cmp[1].lt /\ ~cmp[1].eq /\ cmp[1].gt

\* The keys of the records a container holds.
StoredKeys(seq) == {seq[i].key : i \in 1..Len(seq)}

\* The keys that were added and not deleted since, after a call: those before it,
\* with the key of an addDuration that returned, without that of a deleteDuration.
AddedNotDeleted ==
    CASE lastOp'.op = "addDuration" /\ lastOp'.exc = "" ->
             StoredKeys(durations_) \cup {lastOp'.key[1]}
      [] lastOp'.op = "deleteDuration" /\ lastOp'.exc = "" ->
             StoredKeys(durations_) \ {lastOp'.key[1]}
      [] OTHER -> StoredKeys(durations_)

\* getDuration(key) returns a record exactly when the key is stored, and changes
\* nothing the store holds.
GetFindsStored ==
    \A key \in IndexKeyArgs, h \in Handles :
        StoreGetDuration(key, h)
            => /\ held'[h] # None <=> key[1] \in StoredKeys(durations_)
               /\ held'[h] # None => held'[h][1].key = key[1]
               /\ durations_' = durations_

\* getAll returns one record per stored key, in ascending order of the keys.
GetAllAscending ==
    lastOp'.op = "getAll"
        => LET c == collection'[1]
           IN /\ Len(c) = Cardinality(StoredKeys(durations_))
              /\ {c[i].key : i \in 1..Len(c)} = StoredKeys(durations_)
              /\ \A i, j \in 1..Len(c) : i < j => LexLess(c[i].key, c[j].key)

\* C29: after any sequence of addDuration, updateDuration and deleteDuration calls,
\* getDuration(k) returns a record if and only if k was added and not deleted since,
\* getAll returns exactly one record per such key in ascending key order, and
\* getDuration of an absent key returns an empty pointer and creates no record.
C29_LookupAfterCalls ==
    [][ /\ StoredKeys(durations_') = AddedNotDeleted
        /\ Len(durations_') = Cardinality(StoredKeys(durations_'))
        /\ GetFindsStored
        /\ GetAllAscending ]_vars

\* The calls whose samples the current interval counts: the latest ones, as many
\* as the interval has occurrences.
CountedInCurrent ==
    LET n == intervals[mond.current_interval_].occurrences_
    IN {i \in 1..Len(calls) : i > Len(calls) - n}

\* C30: in every state of a MonitoredDuration under addSample and clear, a previous
\* interval exists only if a current one does, every existing interval has at least
\* one occurrence, the previous interval started more than the interval duration
\* before the current one, and every sample the current interval counts arrived no
\* later than the interval duration after its start.
C30_DurationInvariants ==
    /\ mond.previous_interval_ # 0 => mond.current_interval_ # 0
    /\ \A a \in Refs(mond) : intervals[a].occurrences_ >= 1
    /\ mond.previous_interval_ # 0 =>
          intervals[mond.previous_interval_].start_time_ + mond.interval_duration_
              < intervals[mond.current_interval_].start_time_
    /\ mond.current_interval_ # 0 =>
          /\ intervals[mond.current_interval_].occurrences_ <= Len(calls)
          /\ \A i \in CountedInCurrent :
                /\ calls[i].time >= intervals[mond.current_interval_].start_time_
                /\ calls[i].time <= intervals[mond.current_interval_].start_time_
                                       + mond.interval_duration_

\* C30 witness: after a rotation, the current interval counts a second sample that
\* arrived exactly the interval duration after its start.
C30_Witness ==
    /\ mond.previous_interval_ # 0
    /\ mond.current_interval_ # 0
    /\ intervals[mond.current_interval_].occurrences_ = 2
    /\ calls[Len(calls)].time = intervals[mond.current_interval_].start_time_
                                   + mond.interval_duration_

\* The thread has finished getDuration, addSample and updateDuration, without exception.
SampledAndStored(t) ==
    /\ pc[t] = "idle"
    /\ Len(hist[t]) = 2
    /\ hist[t][1].op = "getDuration" /\ hist[t][1].exc = ""
    /\ hist[t][2].op = "updateDuration" /\ hist[t][2].exc = ""
    /\ Sampled(t)

\* The occurrences of the stored record over its current and previous intervals.
StoredOccurrences ==
    LET m == durations_[Find(durations_, index_, TheKey)]
        occ(a) == IF a = 0 THEN 0 ELSE intervals[a].occurrences_
    IN occ(m.current_interval_) + occ(m.previous_interval_)

\* C31: when two threads have each run getDuration(k), addSample on the returned
\* record and updateDuration with it, in any interleaving, the record stored for k
\* accounts for both samples: its occurrences over the current and the previous
\* interval are those it had before, plus 2.
C31_NoSampleLost ==
    (\A t \in Threads : SampledAndStored(t)) => StoredOccurrences = Len(calls)

\* What the container shows of its records, in their order.
StoredViews(seq, iv) == [i \in 1..Len(seq) |-> View(seq[i], iv)]

\* The records of a container without those of one key.
WithoutKey(views, key) == SelectSeq(views, LAMBDA v : v.key # key)

\* C32: deleteDuration of a key that is present removes exactly that record and leaves
\* all other records unchanged; of a key that is absent it returns without error and
\* without changing the store; either way the key is absent afterwards.
C32_DeleteLocal ==
    [][ (lastOp'.op = "deleteDuration" /\ lastOp'.key # None)
            => LET key == lastOp'.key[1]
                   before == StoredViews(durations_, intervals)
                   after == StoredViews(durations_', intervals')
               IN /\ lastOp'.exc = ""
                  /\ after = WithoutKey(before, key)
                  /\ key \notin StoredKeys(durations_)
                        => durations_' = durations_ ]_vars

\* The registrations of the types other than db_type are the same after the step.
OtherTypesKept(db_type) ==
    /\ DOMAIN map_' \ {db_type} = DOMAIN map_ \ {db_type}
    /\ \A t \in DOMAIN map_ \ {db_type} : map_'[t] = map_[t]

\* registerFactory returns false and keeps the registered factory when the type is
\* registered, and otherwise registers the factory and returns true.
RegisterOutcome ==
    \A t \in DbTypes, f \in Factories :
        HostRegisterFactory(t, f)
            => /\ OtherTypesKept(t)
               /\ t \in DOMAIN map_'
               /\ IF t \in DOMAIN map_
                  THEN lastHost'.ret = FALSE /\ map_'[t] = map_[t]
                  ELSE lastHost'.ret = TRUE /\ map_'[t] = f

\* deregisterFactory returns true iff the type was registered; it is not afterwards.
DeregisterOutcome ==
    \A t \in DbTypes :
        HostDeregisterFactory(t)
            => /\ OtherTypesKept(t)
               /\ t \notin DOMAIN map_'
               /\ lastHost'.ret = (t \in DOMAIN map_)

\* registeredFactory tells whether the type is in the registry, which no other call
\* than a registerFactory or deregisterFactory that returns true changes.
RegisteredOutcome ==
    /\ lastHost'.op = "registeredFactory"
          => lastHost'.ret = (lastHost'.db_type \in DOMAIN map_)
    /\ ~(lastHost'.op \in {"registerFactory", "deregisterFactory"} /\ lastHost'.ret)
          => map_' = map_

\* C33: the registry holds at most one factory per database type: registerFactory
\* returns false and keeps the registered factory when the type is registered, and
\* registers and returns true otherwise; deregisterFactory returns true iff the type
\* was registered; registeredFactory(t) is true iff the last registerFactory or
\* deregisterFactory of t that returned true was a registerFactory.
C33_FactoryRegistry ==
    [][RegisterOutcome /\ DeregisterOutcome /\ RegisteredOutcome]_vars

\* C33 witness: a registerFactory of a registered type has returned false, the type
\* is registered with a factory that makes sources, and the other type is not.
C33_Witness ==
    /\ lastHost.op = "registerFactory"
    /\ lastHost.ret = FALSE
    /\ DOMAIN map_ = {lastHost.db_type}
    /\ map_[lastHost.db_type] = "make"

\* No pointer of the list is null.
NoNullSource == \A i \in 1..Len(sources) : sources[i] # None

\* The exception add throws for an access string, as the claim lists them.
AddThrows(dbaccess) ==
    IF \A i \in 1..Len(dbaccess) : dbaccess[i][1] # "type" THEN "InvalidParameter"
    ELSE LET type == dbaccess[CHOOSE i \in 1..Len(dbaccess) : dbaccess[i][1] = "type"][2]
         IN IF type \notin DOMAIN map_ THEN "InvalidType"
            ELSE IF map_[type] = "null" THEN "Unexpected"
            ELSE IF map_[type] = "throw" THEN "DbOpenError"
            ELSE ""

\* C34: add either appends exactly one non-null source at the end of the list, or
\* throws and leaves the list as it was: InvalidParameter when the access string has
\* no 'type', InvalidType when no factory is registered for the type, Unexpected when
\* the factory returns null; the list never contains a null source.
C34_AddOrThrow ==
    [][ /\ NoNullSource /\ NoNullSource'
        /\ \A a \in AccessStrings :
              HostAdd(a)
                  => /\ lastHost'.exc = AddThrows(a)
                     /\ IF lastHost'.exc = ""
                        THEN /\ Len(sources') = Len(sources) + 1
                             /\ SubSeq(sources', 1, Len(sources)) = sources
                             /\ sources'[Len(sources')] # None
                             /\ sources'[Len(sources')][1].type = parse(a)["type"]
                        ELSE sources' = sources ]_vars

\* C34 witness: add has thrown Unexpected for a type whose factory returns null, and
\* the list holds the source it held before.
C34_Witness ==
    /\ lastHost.op = "add"
    /\ lastHost.exc = "Unexpected"
    /\ Len(sources) = 1
    /\ sources[1] # None

\* The positions of the sources of that type and, for an access string, of its parameters.
MatchingType(db_type) == {i \in 1..Len(sources) : sources[i][1].type = db_type}
Matching(db_type, dbaccess) ==
    {i \in MatchingType(db_type) : sources[i][1].parameters = parse(dbaccess)}

\* The list after the step is the list before it without the source at position i.
Removed(i) ==
    /\ Len(sources') = Len(sources) - 1
    /\ \A j \in 1..Len(sources') : sources'[j] = sources[IF j < i THEN j ELSE j + 1]

\* The step removed the first of the sources at these positions, if there is one, and
\* no other.
RemovedFirstOf(S) ==
    IF S = {} THEN sources' = sources
    ELSE Removed(CHOOSE i \in S : \A j \in S : i <= j)

\* C35: del removes at most one source per call and keeps the order of the others.
\* With if_unusable false it removes the first source matching type and parameters
\* and returns true iff one was removed. With if_unusable true it never removes a
\* usable source, removes the first matching source that is unusable, and returns
\* false iff at least one matching source exists and none was removed.
C35_DelAtMostOne ==
    [][ /\ \A t \in DbTypes, a \in AccessStrings :
              HostDelAccess(t, a, FALSE)
                  => /\ RemovedFirstOf(Matching(t, a))
                     /\ lastHost'.ret = (Matching(t, a) # {})
        /\ \A t \in DbTypes, a \in AccessStrings :
              HostDelAccess(t, a, TRUE)
                  => LET unusable == {i \in Matching(t, a) : sources[i][1].unusable}
                     IN /\ RemovedFirstOf(unusable)
                        /\ lastHost'.ret = FALSE <=> (Matching(t, a) # {} /\ unusable = {})
        /\ \A t \in DbTypes :
              HostDel(t)
                  => /\ RemovedFirstOf(MatchingType(t))
                     /\ lastHost'.ret = (MatchingType(t) # {}) ]_vars

\* C35 witness: del with if_unusable has returned true and left in the list a usable
\* source of the type and the parameters it was called with.
C35_Witness ==
    /\ lastHost.op = "delAccess"
    /\ lastHost.if_unusable
    /\ lastHost.ret
    /\ \E i \in Matching(lastHost.db_type, lastHost.dbaccess) : ~sources[i][1].unusable

\* The TTL grammar as the claims state it. A part ends at a letter, or after the last
\* character when that is no letter; its number is the text since the previous letter.
PartEnds(str) ==
    {i \in 1..Len(str) : myIsalpha(str[i])}
        \cup (IF Len(str) > 0 /\ ~myIsalpha(str[Len(str)]) THEN {Len(str) + 1} ELSE {})
PartNumber(str, e) ==
    LET before == {i \in 1..(e - 1) : myIsalpha(str[i])}
        from == IF before = {} THEN 1 ELSE 1 + CHOOSE i \in before : \A j \in before : j <= i
    IN  SubSeq(str, from, e - 1)
UnitSeconds(c) ==
    CASE c \in {"S", "s"} -> 1
      [] c \in {"M", "m"} -> 60
      [] c \in {"H", "h"} -> 3600
      [] c \in {"D", "d"} -> 86400
      [] c \in {"W", "w"} -> 604800
      [] OTHER -> 0
Unsigned(number) == IF number[1] \in {"+", "-"} THEN Tail(number) ELSE number
Numeric(number) ==
    /\ Len(number) > 0 /\ Len(Unsigned(number)) > 0
    /\ \A i \in 1..Len(Unsigned(number)) : IsDigit(Unsigned(number)[i])
NumberValue(number) ==
    Decimal([i \in 1..Len(Unsigned(number)) |-> DigitOf(Unsigned(number)[i])])
Negative(number) == number[1] = "-" /\ NumberValue(number) # <<0>>
PartSeconds(str, e) ==
    Times(IF e <= Len(str) THEN UnitSeconds(str[e]) ELSE 1, NumberValue(PartNumber(str, e)))
RECURSIVE RunningTotal(_, _)
RunningTotal(str, e) ==
    IF e = 0 THEN <<0>>
    ELSE IF e \in PartEnds(str) THEN Plus(RunningTotal(str, e - 1), PartSeconds(str, e))
    ELSE RunningTotal(str, e - 1)
WellFormedTtl(str) ==
    /\ Len(str) > 0
    /\ \A e \in PartEnds(str) :
          /\ e <= Len(str) => UnitSeconds(str[e]) # 0
          /\ Numeric(PartNumber(str, e))
InRange32(str) ==
    \A e \in PartEnds(str) :
        /\ ~Negative(PartNumber(str, e))
        /\ ~LessNat(Uint32Max, PartSeconds(str, e))
        /\ ~LessNat(Uint32Max, RunningTotal(str, e))

\* C36: RRTTL(string) accepts the texts made of <number><unit> parts with the units
\* S, M, H, D, W in either case and an optional final number without unit, and yields
\* the sum of number times unit seconds when every part and running total is within
\* 32 bits; every other text, the empty one included, ends in InvalidRRTTL.
C36_TextTtl ==
    (rrttl.done /\ rrttl.buffer = None) =>
        IF WellFormedTtl(rrttl.ttlstr) /\ InRange32(rrttl.ttlstr)
        THEN /\ rrttl.exc = ""
             /\ rrttl.ttlval_ = Some(RunningTotal(rrttl.ttlstr, Len(rrttl.ttlstr) + 1))
             /\ ~LessNat(Uint32Max, rrttl.ttlval_[1])
        ELSE rrttl.exc = "InvalidRRTTL" /\ rrttl.ttlval_ = None

\* The decimal text of a 32-bit value: digits only, no leading zero but "0" itself,
\* and at most 4294967295.
DecimalText32(str) ==
    /\ Len(str) > 0
    /\ \A i \in 1..Len(str) : IsDigit(str[i])
    /\ Len(str) = 1 \/ str[1] # "0"
    /\ ~LessNat(Uint32Max, NumberValue(str))

\* C37: for every value v of 0..2^32-1 the construction from the decimal text of v
\* succeeds, and toText() of the result is that text again.
C37_TextRoundTrip ==
    (rrttl.done /\ rrttl.buffer = None /\ DecimalText32(rrttl.ttlstr)) =>
        /\ rrttl.exc = ""
        /\ rrttl.text # None => rrttl.text = Some(rrttl.ttlstr)

\* The keys of a dictionary, and the ID with the suffix " (n)" as the claim writes it.
DictKeys(dict) == {e.key : e \in dict}
WithSuffix(msgid, n) == msgid \o <<" ", "(">> \o IntText(n) \o <<")">>
BeforeUnderscore(msgid) ==
    IF \E i \in 1..Len(msgid) : msgid[i] = "_"
    THEN SubSeq(msgid, 1, (CHOOSE i \in 1..Len(msgid) :
                               msgid[i] = "_" /\ \A j \in 1..(i - 1) : msgid[j] # "_") - 1)
    ELSE msgid

\* C38: a call of addToDictionary keeps every entry as it was and adds exactly one entry
\* under a key that was not used: the message ID, or when that is a key already the ID
\* with " (n)" for the smallest n >= 1 whose key was not used; the new entry holds the
\* message text, and as section name the part of the ID before its first underscore.
C38_AddNeverOverwrites ==
    [][\A msgid \in MessageIds, msgtext \in MessageTexts, desc \in Descriptions :
          AddToDictionary(msgid, msgtext, desc) =>
              \E e \in dictionary' :
                  /\ e \notin dictionary /\ e.key \notin DictKeys(dictionary)
                  /\ dictionary' = dictionary \cup {e}
                  /\ IF msgid \notin DictKeys(dictionary) THEN e.key = msgid
                     ELSE \E n \in 1..(Cardinality(dictionary) + 1) :
                              /\ e.key = WithSuffix(msgid, n)
                              /\ \A k \in 1..(n - 1) :
                                     WithSuffix(msgid, k) \in DictKeys(dictionary)
                  /\ e.details.text = msgtext
                  /\ e.details.sname = BeforeUnderscore(msgid)]_vars

\* C38 witness: a message whose ID and whose ID with " (1)" were keys has been stored
\* under the ID with " (2)", next to the two older entries.
C38_Witness ==
    /\ lastMsg # None
    /\ lastMsg[1].key = WithSuffix(lastMsg[1].msgid, 2)
    /\ {lastMsg[1].msgid, WithSuffix(lastMsg[1].msgid, 1), lastMsg[1].key}
           \subseteq DictKeys(dictionary)
    /\ \E e \in dictionary : e.key = lastMsg[1].msgid /\ e.details.text # lastMsg[1].msgtext

====
